---- MODULE Spec2Model ----
(***************************************************************************)
(* Voice chat pipeline of cloudflare-101.                                  *)
(*                                                                         *)
(* Server (src/hono/src/durable-object/VoiceAi.ts): one                    *)
(* VoiceAIDurableObject serving one accepted socket.  Every inbound binary *)
(* frame runs handleAudioInput as its own async handler; the handlers of   *)
(* two frames overlap at their await points.  A step is what runs between  *)
(* two awaits on outside work (transcription, the next stream chunk, a     *)
(* synthesis call): the promise continuations that follow it are part of   *)
(* the step.                                                               *)
(*                                                                         *)
(* Client (src/nextjs/features/voice-chat/hooks/useVoiceChat.ts): the      *)
(* message handler, the playback queue and the callbacks of the Audio      *)
(* element of each item.                                                   *)
(*                                                                         *)
(* Text is a sequence of one-character strings, so that trim and the       *)
(* single-space join are computed.                                         *)
(***************************************************************************)
EXTENDS Integers, Sequences, FiniteSets, TLC

\* ------------------------------------------------------------------ bounds
MaxChunks == 2      \* chunks the completion streams yield, all turns together
MaxCmds   == 1      \* text frames (clear commands, malformed frames)
MaxArrivals == 3    \* server messages the client receives

\* the audio frames of the connection, numbered in arrival order: two
\* handlers, so that a frame can arrive while the previous turn is in progress
Frames == {1, 2}

\* ------------------------------------------------------------------- text
Null == <<"null">>            \* the JavaScript null/undefined value

WS == " "                     \* the whitespace character of the alphabet

RECURSIVE TrimStart(_)
TrimStart(s) == IF s # <<>> /\ Head(s) = WS THEN TrimStart(Tail(s)) ELSE s

RECURSIVE TrimEnd(_)
TrimEnd(s) ==
    IF s # <<>> /\ s[Len(s)] = WS THEN TrimEnd(SubSeq(s, 1, Len(s) - 1)) ELSE s

\* a loop that takes the chunks as they come
TrimNone(s) == s

\* String(chunk).trim()
Trim(s) == TrimEnd(TrimStart(s))

\* !value for a string or null
Falsy(t) == t = Null \/ t = <<>>

\* chunks result.textStream can yield (after the smoothStream transform): the
\* n-th chunk is a sentence of its own or whitespace only
Letters == << "a", "b", "c", "d", "e", "f" >>
StreamChunks(n) == { << WS, Letters[n], ".", WS >>, << WS >> }

\* texts the transcription model can return
UserTexts == { <<"h", "i">> }

\* audio payload (base64 string) of the synthesis model
Payload == <<"U", "k">>

\* ------------------------------------------------------------ environment
\* outcomes of env.AI.run(TRANSCRIBE_AUDIO_MODEL, ...)
WhisperOutcomes ==
    { [raised |-> FALSE, text |-> t] : t \in UserTexts \cup {<<>>, Null} }
        \cup { [raised |-> TRUE, text |-> Null] }

\* outcomes of env.AI.run(TEXT_TO_SPEECH_MODEL, ...)
TtsOutcomes ==
    { [raised |-> FALSE, audio |-> a] : a \in {Payload, Null} }
        \cup { [raised |-> TRUE, audio |-> Null] }

VARIABLES
    accepted,        \* handleSession has run for the socket
    msgHistory,      \* this.msgHistory
    sent,            \* the ws.send calls in call order, grouped by the
                     \* frame whose handler or task made the call
                     \* (group 0: the session itself)
    pc,              \* position of the handler of each audio frame
    transcription,   \* handleAudioInput's transcription, per frame
    fullResponse,    \* generateAndSpeakResponse's fullResponse, per frame
    ttsQueue,        \* generateAndSpeakResponse's ttsQueue, per frame
    streamMessages,  \* the messages streamText was called with, per frame
    nchunks,         \* chunks the streams have yielded
    nframes,         \* audio frames received
    ncmds,           \* text frames received
    streamPos,       \* per frame: chunks its loop took from the text stream
    textFrames,      \* the kinds of the text frames received, in order
    failures         \* the calls that raised: << frame, call, unit >>

svars == << accepted, msgHistory, sent, pc, transcription, fullResponse,
            ttsQueue, streamMessages, nchunks, nframes, ncmds, textFrames,
            failures, streamPos >>

\* client (src/nextjs/features/voice-chat/hooks/useVoiceChat.ts)
VARIABLES
    messages,        \* the transcript (useState messages)
    isSpeaking,      \* useState isSpeaking
    isListening,     \* useState isListening
    status,          \* useState status
    audioQueue,      \* audioQueueRef.current
    isPlaying,       \* isPlayingRef.current
    elements,        \* the Audio element created for each queue item
    started,         \* the items playNextInQueue has shifted, in order
    narrivals        \* server messages received

cvars == << messages, isSpeaking, isListening, status, audioQueue, isPlaying,
            elements, started, narrivals >>

\* the route and the objects behind it
VARIABLES
    uuids,           \* names generated so far
    stubOf,          \* per connection: the name of its object, 0 before it
    objHistory,      \* per name: this.msgHistory of the object of that name
    wsSent,          \* per connection: the messages sent on its socket
    sessPc,          \* per connection: where its turn stands
    sessUnits,       \* per connection: tasks added to the queue of its turn
    sessDone         \* per connection: tasks of that queue that settled

rvars == << uuids, stubOf, objHistory, wsSent, sessPc, sessUnits, sessDone >>

\* one run of the transform smoothStream puts on a completion stream
VARIABLES
    segAll,          \* the deltas of the stream
    segPos,          \* deltas the transform has taken
    segBuffer,       \* buffer of the transform
    segOut,          \* the chunks enqueued so far, in order
    segPhase,        \* "idle", "open" (deltas may come), "ended"
    segTail,         \* what the buffer held when the stream ended
    segTaken,        \* chunks the for-await loop has taken
    segUnits,        \* the sentences the loop gave a queue task, in order
    segFull          \* fullResponse of the loop

gvars == << segAll, segPos, segBuffer, segOut, segPhase, segTail, segTaken,
            segUnits, segFull >>

\* the controls of the hook: Start, Stop, the socket and the audio unlock
VARIABLES
    audioUnlocked,   \* audioUnlockedRef.current
    audioContext,    \* audioContextRef.current: 0 for null, else which context
    contexts,        \* the AudioContext objects created: the state of each
    resumeRequests,  \* calls of resume()
    unlockCalls,     \* calls of unlockAudio
    wsState,         \* the socket: "none", "connecting", "open", "closed"
    wsRef,           \* wsRef.current is set
    isConnected,     \* the isConnected state of the hook
    closeHandlers,   \* ws.onerror and ws.onclose are assigned
    startPc          \* handleStart: "idle", "connecting", "timer"

lvars == << audioUnlocked, audioContext, contexts, resumeRequests, unlockCalls,
            wsState, wsRef, isConnected, closeHandlers, startPc >>

\* one call of encodeWavPCM16
VARIABLES
    wavSamples,      \* samples, each in quarters (4 stands for 1.0)
    wavRate,         \* sampleRate, a wide number
    wavOut,          \* the bytes of the returned buffer
    wavPhase         \* "idle", "done"

wvars == << wavSamples, wavRate, wavOut, wavPhase >>

\* one call of b64ToBlob
VARIABLES
    sniffPayload,    \* the audio bytes the server encoded
    sniffDamage,     \* what happened to the text on its way
    sniffText,       \* the cleaned base64 text handed to sniffAudioMime
    sniffMime,       \* the returned type, "none" before the call
    sniffPhase       \* "idle", "done", "threw"

nvars == << sniffPayload, sniffDamage, sniffText, sniffMime, sniffPhase >>

\* the close of the server's socket
VARIABLES
    closed,          \* the close event has been delivered
    sendThrows       \* ws.send throws on the closed socket

kvars == << closed, sendThrows >>

\* one invocation of the queue consumer
VARIABLES
    batch,           \* batch.messages: the bodies, in order
    acks,            \* per message: calls of message.ack()
    retries,         \* per message: calls of message.retry()
    vectors,         \* the vectors prepared for insertion
    inserted,        \* the vectors the index took
    culprit,         \* the message whose embedding was missing, 0 if none
    rethrown,        \* the invocation ended by rethrowing the error
    qPhase           \* "idle", "embedding", "inserting", "acked", "threw"

qvars == << batch, acks, retries, vectors, inserted, culprit, rethrown,
            qPhase >>

\* the variables of the utility specifications
ovars == << nvars, kvars, qvars >>

\* the variables of the function-level specifications
fvars == << gvars, lvars, wvars, ovars >>

\* --------------------------------------------------------------- messages
Status(s, f) ==
    [type |-> "status", text |-> s, audio |-> <<>>, frame |-> f, unit |-> 0]
TextMsg(t, f) ==
    [type |-> "text", text |-> t, audio |-> <<>>, frame |-> f, unit |-> 0]
AudioMsg(t, a, f, k) ==
    [type |-> "audio", text |-> t, audio |-> a, frame |-> f, unit |-> k]
ErrorMsg(e, f) ==
    [type |-> "error", text |-> e, audio |-> <<>>, frame |-> f, unit |-> 0]

Turn(r, c, f) == [role |-> r, content |-> c, frame |-> f]

\* ---------------------------------------------------------------- p-queue
\* a queue that runs two tasks at a time
ConcurrencyTwo == 1 + 1

\* new PQueue({ concurrency: 1 })
Concurrency == 1

Pending(q) == Cardinality({ k \in DOMAIN q : q[k].st = "running" })
Queued(q)  == { k \in DOMAIN q : q[k].st = "queued" }
MinOf(S)   == CHOOSE x \in S : \A y \in S : x <= y

\* start the oldest queued task when a slot is free
TryToStartAnother(q) ==
    IF Queued(q) # {} /\ Pending(q) < Concurrency
    THEN [q EXCEPT ![MinOf(Queued(q))].st = "running"]
    ELSE q

\* ttsQueue.add(task)
QueueAdd(q, sentence) ==
    TryToStartAnother(
        Append(q, [text |-> sentence, st |-> "queued", result |-> Null]))

\* the condition onEmpty() waits for: nothing queued, a task may still run
OnEmpty(q) == Queued(q) = {}

\* the condition ttsQueue.onIdle() waits for
OnIdle(q) == Pending(q) = 0 /\ Queued(q) = {}

\* ----------------------------------------------------------------- server
\* ws.send(JSON.stringify(m)) made on behalf of frame m.frame
Send(log, m) == [log EXCEPT ![m.frame] = Append(@, m)]

\* transcribeAudio: result.text || null, null when the call raises
transcribeAudio(o) ==
    IF o.raised THEN Null ELSE IF Falsy(o.text) THEN Null ELSE o.text

\* a guard that tests  transcription === ""
NoTranscriptionOnlyEmpty(t) == t = <<>>

\* handleAudioInput's guard  if (!transcription)
NoTranscription(t) == Falsy(t)

\* textToSpeech: the audio string, null when the call raises
textToSpeech(o) == IF o.raised THEN Null ELSE o.audio

\* a task without the guard
AudioPresentAlways(a) == TRUE

\* the task's guard  if (audio)
AudioPresent(a) == ~Falsy(a)

\* an accumulation without the separator
AccumulateNoSeparator(full, sentence) == full \o sentence

\* fullResponse += (fullResponse ? " " : "") + sentence
Accumulate(full, sentence) ==
    IF full # <<>> THEN full \o <<WS>> \o sentence ELSE sentence

\* a handler that does not record the user turn
PushUserSkipped(hist, t, f) == hist

\* this.msgHistory.push({ role: "user", content: transcription })
PushUser(hist, t, f) == Append(hist, Turn("user", t, f))

\* a push that overwrites the newest turn
PushAssistantOverwrite(hist, full, f) ==
    IF hist = <<>>
    THEN << Turn("assistant", full, f) >>
    ELSE [hist EXCEPT ![Len(hist)] = Turn("assistant", full, f)]

\* this.msgHistory.push({ role: "assistant", content: fullResponse })
PushAssistant(hist, full, f) == Append(hist, Turn("assistant", full, f))

\* a handler that empties nothing
ClearHistoryKept(hist) == hist

\* this.msgHistory = []
ClearHistory(hist) == <<>>

\* a catch that commits the text generated so far
KeepPartialResponse(hist, full, f) == Append(hist, Turn("assistant", full, f))

\* the catch of generateAndSpeakResponse: log and rethrow, the history is
\* left as it is
HistoryAfterStreamError(hist, full, f) == hist

\* a catch that closes the socket
AfterCatchClosed(acc) == FALSE

\* the catch of the message listener: the socket stays open and the listener
\* stays attached
AfterCatch(acc) == acc

ServerInit ==
    /\ accepted = FALSE
    /\ msgHistory = <<>>
    /\ sent = [f \in {0} \cup Frames |-> <<>>]
    /\ pc = [f \in Frames |-> "none"]
    /\ transcription = [f \in Frames |-> Null]
    /\ fullResponse = [f \in Frames |-> <<>>]
    /\ ttsQueue = [f \in Frames |-> <<>>]
    /\ streamMessages = [f \in Frames |-> <<>>]
    /\ nchunks = 0
    /\ nframes = 0
    /\ ncmds = 0
    /\ textFrames = <<>>
    /\ failures = {}
    /\ streamPos = [f \in Frames |-> 0]

\* a session that is accepted without a word
HandleSessionNoReady ==
    /\ ~accepted
    /\ accepted' = TRUE
    /\ UNCHANGED << fvars, rvars, cvars, streamPos, textFrames, failures,
                    msgHistory, sent, pc, transcription, fullResponse,
                    ttsQueue, streamMessages, nchunks, nframes, ncmds >>

\* handleSession: accept the socket, send the ready status
HandleSession ==
    /\ ~accepted
    /\ accepted' = TRUE
    /\ sent' = Send(sent, Status("ready", 0))
    /\ UNCHANGED << fvars, rvars, cvars, streamPos, textFrames, failures,
                    msgHistory, pc, transcription, fullResponse, ttsQueue,
                    streamMessages, nchunks, nframes, ncmds >>

\* a listener that takes a frame only when no turn is in progress
ReceiveAudioWhenIdle ==
    /\ accepted
    /\ \A f \in Frames : pc[f] \notin {"transcribing", "streaming", "draining"}
    /\ nframes < Cardinality(Frames)
    /\ nframes' = nframes + 1
    /\ pc' = [pc EXCEPT ![nframes + 1] = "transcribing"]
    /\ sent' = Send(sent, Status("Processing....", nframes + 1))
    /\ UNCHANGED << fvars, rvars, cvars, streamPos, textFrames, failures,
                    accepted, msgHistory, transcription, fullResponse,
                    ttsQueue, streamMessages, nchunks, ncmds >>

\* message handler, binary frame: handleAudioInput up to the await of
\* transcribeAudio
ReceiveAudio ==
    /\ accepted
    /\ nframes < Cardinality(Frames)
    /\ nframes' = nframes + 1
    /\ pc' = [pc EXCEPT ![nframes + 1] = "transcribing"]
    /\ sent' = Send(sent, Status("Processing....", nframes + 1))
    /\ UNCHANGED << fvars, rvars, cvars, streamPos, textFrames, failures,
                    accepted, msgHistory, transcription, fullResponse,
                    ttsQueue, streamMessages, nchunks, ncmds >>

\* handleAudioInput after transcribeAudio settled, through the call of
\* generateAndSpeakResponse up to the first await of the text stream
TranscribeDone(f, o) ==
    /\ pc[f] = "transcribing"
    /\ failures' = IF o.raised
                    THEN failures \cup { << f, "transcription", 0 >> }
                    ELSE failures
    /\ LET t == transcribeAudio(o) IN
        /\ transcription' = [transcription EXCEPT ![f] = t]
        /\ IF NoTranscription(t)
           THEN /\ sent' = Send(sent, Status("Idle", f))
                /\ pc' = [pc EXCEPT ![f] = "aborted"]
                /\ UNCHANGED << msgHistory, streamMessages >>
           ELSE /\ sent' = Send(sent, TextMsg(t, f))
                /\ msgHistory' = PushUser(msgHistory, t, f)
                /\ streamMessages' =
                       [streamMessages EXCEPT ![f] = msgHistory']
                /\ pc' = [pc EXCEPT ![f] = "streaming"]
    /\ UNCHANGED << fvars, rvars, cvars, streamPos, textFrames, accepted,
                    fullResponse, ttsQueue, nchunks, nframes, ncmds >>

\* a turn that ends without its closing status
FinishTurnNoIdle(f, hist, out) ==
    /\ msgHistory' = PushAssistant(hist, fullResponse[f], f)
    /\ sent' = out
    /\ pc' = [pc EXCEPT ![f] = "done"]

\* the statements after  await ttsQueue.onIdle()  and the return into
\* handleAudioInput
FinishTurn(f, hist, out) ==
    /\ msgHistory' = PushAssistant(hist, fullResponse[f], f)
    /\ sent' = Send(out, Status("Idle", f))
    /\ pc' = [pc EXCEPT ![f] = "done"]

\* one iteration of  for await (const chunk of result.textStream)
StreamChunk(f, chunk) ==
    /\ pc[f] = "streaming"
    /\ nchunks < MaxChunks
    /\ nchunks' = nchunks + 1
    /\ streamPos' = [streamPos EXCEPT ![f] = @ + 1]
    /\ LET sentence == Trim(chunk) IN
        IF sentence = <<>>
        THEN UNCHANGED << fullResponse, sent, ttsQueue >>
        ELSE /\ fullResponse' =
                    [fullResponse EXCEPT ![f] = Accumulate(@, sentence)]
             /\ sent' = Send(sent, Status("Speaking...", f))
             /\ ttsQueue' = [ttsQueue EXCEPT ![f] = QueueAdd(@, sentence)]
    /\ UNCHANGED << fvars, rvars, cvars, textFrames, failures, accepted,
                    msgHistory, pc, transcription, streamMessages, nframes,
                    ncmds >>

\* the text stream ends: await ttsQueue.onIdle()
StreamEnd(f) ==
    /\ pc[f] = "streaming"
    /\ IF OnIdle(ttsQueue[f])
       THEN FinishTurn(f, msgHistory, sent)
       ELSE /\ pc' = [pc EXCEPT ![f] = "draining"]
            /\ UNCHANGED << msgHistory, sent >>
    /\ UNCHANGED << fvars, rvars, cvars, streamPos, textFrames, failures,
                    accepted, transcription, fullResponse, ttsQueue,
                    streamMessages, nchunks, nframes, ncmds >>

\* the text stream raises: rethrown by generateAndSpeakResponse, caught by
\* the message handler, which sends the error message
StreamFail(f) ==
    /\ pc[f] = "streaming"
    /\ pc' = [pc EXCEPT ![f] = "failed"]
    /\ failures' = failures \cup { << f, "completion", 0 >> }
    /\ msgHistory' = HistoryAfterStreamError(msgHistory, fullResponse[f], f)
    /\ sent' = Send(sent, ErrorMsg("stream error", f))
    /\ accepted' = AfterCatch(accepted)
    /\ UNCHANGED << fvars, rvars, cvars, streamPos, textFrames,
                    transcription, fullResponse, ttsQueue, streamMessages,
                    nchunks, nframes, ncmds >>

\* the running task k of frame f's queue: textToSpeech settles, the task
\* sends the audio message or logs, the queue starts the next task and, when
\* the handler waits in onIdle and the queue is idle, the handler continues
TtsDone(f, k, o) ==
    /\ k \in DOMAIN ttsQueue[f]
    /\ ttsQueue[f][k].st = "running"
    /\ failures' = IF o.raised
                    THEN failures \cup { << f, "synthesis", k >> }
                    ELSE failures
    /\ LET audio == textToSpeech(o)
           out   == IF AudioPresent(audio)
                    THEN Send(sent,
                              AudioMsg(ttsQueue[f][k].text, audio, f, k))
                    ELSE sent
           q     == TryToStartAnother(
                        [ttsQueue[f] EXCEPT ![k].st = "done",
                                            ![k].result = audio])
       IN
        /\ ttsQueue' = [ttsQueue EXCEPT ![f] = q]
        /\ IF pc[f] = "draining" /\ OnIdle(q)
           THEN FinishTurn(f, msgHistory, out)
           ELSE /\ sent' = out
                /\ UNCHANGED << msgHistory, pc >>
    /\ UNCHANGED << fvars, rvars, cvars, streamPos, textFrames, accepted,
                    transcription, fullResponse, streamMessages, nchunks,
                    nframes, ncmds >>

\* message handler, text frame {"type":"cmd","data":"clear"}
ClearCmd ==
    /\ accepted
    /\ ncmds < MaxCmds
    /\ ncmds' = ncmds + 1
    /\ textFrames' = Append(textFrames, "clear")
    /\ msgHistory' = ClearHistory(msgHistory)
    /\ sent' = Send(sent, Status("Chat cleared", 0))
    /\ UNCHANGED << fvars, rvars, cvars, streamPos, failures, accepted, pc,
                    transcription, fullResponse, ttsQueue, streamMessages,
                    nchunks, nframes >>

\* a listener with no catch: the rejected frame is answered by nothing
MalformedFrameUncaught ==
    /\ accepted
    /\ ncmds < MaxCmds
    /\ ncmds' = ncmds + 1
    /\ textFrames' = Append(textFrames, "malformed")
    /\ UNCHANGED << fvars, rvars, cvars, streamPos, failures, accepted,
                    msgHistory, sent, pc, transcription, fullResponse,
                    ttsQueue, streamMessages, nchunks, nframes >>

\* message handler, text frame JSON.parse rejects
MalformedFrame ==
    /\ accepted
    /\ ncmds < MaxCmds
    /\ ncmds' = ncmds + 1
    /\ textFrames' = Append(textFrames, "malformed")
    /\ sent' = Send(sent, ErrorMsg("parse error", 0))
    /\ accepted' = AfterCatch(accepted)
    /\ UNCHANGED << fvars, rvars, cvars, streamPos, failures, msgHistory, pc,
                    transcription, fullResponse, ttsQueue, streamMessages,
                    nchunks, nframes >>

\* message handler, text frame that parses and is not the clear command
OtherCmd ==
    /\ accepted
    /\ ncmds < MaxCmds
    /\ ncmds' = ncmds + 1
    /\ textFrames' = Append(textFrames, "other")
    /\ UNCHANGED << fvars, rvars, cvars, streamPos, failures, accepted,
                    msgHistory, sent, pc, transcription, fullResponse,
                    ttsQueue, streamMessages, nchunks, nframes >>

ServerNext ==
    \/ HandleSession
    \/ ReceiveAudio
    \/ \E f \in Frames, o \in WhisperOutcomes : TranscribeDone(f, o)
    \/ \E f \in Frames, c \in StreamChunks(nchunks + 1) : StreamChunk(f, c)
    \/ \E f \in Frames : StreamEnd(f)
    \/ \E f \in Frames : StreamFail(f)
    \/ \E f \in Frames, k \in 1..MaxChunks, o \in TtsOutcomes :
            TtsDone(f, k, o)
    \/ ClearCmd
    \/ MalformedFrame
    \/ OtherCmd

\* ------------------------------------------------------------------ close
\* The close listener only logs; the handlers and queue tasks in flight are
\* ordinary promises and go on.  What ws.send does on a socket whose peer
\* has closed depends on the runtime: the call is accepted and the message
\* dropped, or the call throws a TypeError.
CloseInit ==
    /\ closed = FALSE
    /\ sendThrows = FALSE

\* the close event: console.log("WebSocket connection closed")
WsClose(throws) ==
    /\ accepted
    /\ ~closed
    /\ closed' = TRUE
    /\ sendThrows' = throws
    /\ UNCHANGED << svars, cvars, rvars, gvars, lvars, wvars, nvars, qvars >>

\* steps of the listener for frames that arrive: none after the close
Arrivals ==
    /\ ~closed
    /\ \/ HandleSession
       \/ ReceiveAudio

\* steps of the handlers and tasks in flight while ws.send returns
Continuations ==
    /\ ~(closed /\ sendThrows)
    /\ \/ \E f \in Frames, o \in WhisperOutcomes : TranscribeDone(f, o)
       \/ \E f \in Frames, c \in StreamChunks(nchunks + 1) : StreamChunk(f, c)
       \/ \E f \in Frames : StreamEnd(f)
       \/ \E f \in Frames : StreamFail(f)
       \/ \E f \in Frames, k \in 1..MaxChunks, o \in TtsOutcomes :
               TtsDone(f, k, o)

\* handleAudioInput after transcribeAudio settled, ws.send throwing: the
\* first send (Idle or the transcript) throws, the listener's catch runs and
\* its own send throws
ThrowingTranscribeDone(f, o) ==
    /\ closed /\ sendThrows
    /\ pc[f] = "transcribing"
    /\ failures' = IF o.raised
                    THEN failures \cup { << f, "transcription", 0 >> }
                    ELSE failures
    /\ transcription' = [transcription EXCEPT ![f] = transcribeAudio(o)]
    /\ pc' = [pc EXCEPT ![f] = "failed"]
    /\ UNCHANGED << fvars, rvars, cvars, streamPos, textFrames, accepted,
                    msgHistory, sent, streamMessages, fullResponse, ttsQueue,
                    nchunks, nframes, ncmds >>

\* one iteration of the loop, ws.send throwing: an empty sentence is
\* skipped; otherwise fullResponse grows, the Speaking... send throws before
\* ttsQueue.add, generateAndSpeakResponse rethrows and the listener's catch
\* fails too
ThrowingStreamChunk(f, chunk) ==
    /\ closed /\ sendThrows
    /\ pc[f] = "streaming"
    /\ nchunks < MaxChunks
    /\ nchunks' = nchunks + 1
    /\ streamPos' = [streamPos EXCEPT ![f] = @ + 1]
    /\ LET sentence == Trim(chunk) IN
        IF sentence = <<>>
        THEN UNCHANGED << fullResponse, pc >>
        ELSE /\ fullResponse' =
                    [fullResponse EXCEPT ![f] = Accumulate(@, sentence)]
             /\ pc' = [pc EXCEPT ![f] = "failed"]
    /\ UNCHANGED << fvars, rvars, cvars, textFrames, failures, accepted,
                    msgHistory, sent, ttsQueue, transcription,
                    streamMessages, nframes, ncmds >>

\* the statements after  await ttsQueue.onIdle(), ws.send throwing: the
\* assistant turn is pushed, then the Idle send of handleAudioInput throws
ThrowingFinishTurn(f) ==
    /\ msgHistory' = PushAssistant(msgHistory, fullResponse[f], f)
    /\ pc' = [pc EXCEPT ![f] = "failed"]

\* the text stream ends, ws.send throwing
ThrowingStreamEnd(f) ==
    /\ closed /\ sendThrows
    /\ pc[f] = "streaming"
    /\ IF OnIdle(ttsQueue[f])
       THEN ThrowingFinishTurn(f)
       ELSE /\ pc' = [pc EXCEPT ![f] = "draining"]
            /\ UNCHANGED msgHistory
    /\ UNCHANGED << fvars, rvars, cvars, streamPos, textFrames, failures,
                    accepted, sent, transcription, fullResponse, ttsQueue,
                    streamMessages, nchunks, nframes, ncmds >>

\* the text stream raises, ws.send throwing: the listener's catch sends
\* nothing
ThrowingStreamFail(f) ==
    /\ closed /\ sendThrows
    /\ pc[f] = "streaming"
    /\ pc' = [pc EXCEPT ![f] = "failed"]
    /\ failures' = failures \cup { << f, "completion", 0 >> }
    /\ UNCHANGED << fvars, rvars, cvars, streamPos, textFrames, accepted,
                    msgHistory, sent, transcription, fullResponse, ttsQueue,
                    streamMessages, nchunks, nframes, ncmds >>

\* the running task k settles, ws.send throwing: a task with audio rejects
\* (nobody awaits it), the queue starts the next task all the same
ThrowingTtsDone(f, k, o) ==
    /\ closed /\ sendThrows
    /\ k \in DOMAIN ttsQueue[f]
    /\ ttsQueue[f][k].st = "running"
    /\ failures' = IF o.raised
                    THEN failures \cup { << f, "synthesis", k >> }
                    ELSE failures
    /\ LET q == TryToStartAnother(
                    [ttsQueue[f] EXCEPT ![k].st = "done",
                                        ![k].result = textToSpeech(o)])
       IN
        /\ ttsQueue' = [ttsQueue EXCEPT ![f] = q]
        /\ IF pc[f] = "draining" /\ OnIdle(q)
           THEN ThrowingFinishTurn(f)
           ELSE UNCHANGED << msgHistory, pc >>
    /\ UNCHANGED << fvars, rvars, cvars, streamPos, textFrames, accepted,
                    sent, transcription, fullResponse, streamMessages,
                    nchunks, nframes, ncmds >>

CloseNext ==
    \/ Arrivals
    \/ Continuations
    \/ \E throws \in BOOLEAN : WsClose(throws)
    \/ \E f \in Frames, o \in WhisperOutcomes : ThrowingTranscribeDone(f, o)
    \/ \E f \in Frames, c \in StreamChunks(nchunks + 1) :
            ThrowingStreamChunk(f, c)
    \/ \E f \in Frames : ThrowingStreamEnd(f)
    \/ \E f \in Frames : ThrowingStreamFail(f)
    \/ \E f \in Frames, k \in 1..MaxChunks, o \in TtsOutcomes :
            ThrowingTtsDone(f, k, o)

\* ----------------------------------------------------------------- client
Items == 1..MaxArrivals

\* the audio field of a queue item: a base64 string that decodes, a string
\* atob rejects, or no audio at all
GoodAudio == << "U", "k" >>
BadBase64 == << "%" >>
AudioFields == { GoodAudio, BadBase64, Null }

\* the text of a received chunk (a transcript message carries one of
\* UserTexts)
ChunkTexts == { << "a", "." >> }

\* b64ToBlob returns a blob (it throws on a missing or undecodable string)
Decodes(audio) == ~Falsy(audio) /\ audio # BadBase64

\* the Audio element of an item: the promise of play() and the event fired
NoElement == [play |-> "none", ev |-> "none", url |-> "none"]
NewElement == [play |-> "pending", ev |-> "none", url |-> "live"]

\* the client state playNextInQueue reads and writes
PlayerState ==
    [queue |-> audioQueue, isPlaying |-> isPlaying, isSpeaking |-> isSpeaking,
     elements |-> elements, started |-> started]

\* playNextInQueue up to its await of play(); an item that throws before the
\* await runs the catch block, which calls playNextInQueue again
RECURSIVE playNextInQueue(_)
playNextInQueue(c) ==
    IF c.isPlaying \/ c.queue = <<>>
    THEN c
    ELSE LET item == Head(c.queue)
             c1 == [c EXCEPT !.isPlaying = TRUE,
                             !.isSpeaking = TRUE,
                             !.queue = Tail(c.queue),
                             !.started = Append(@, item.id)]
         IN IF Decodes(item.audio)
            THEN [c1 EXCEPT !.elements[item.id] = NewElement]
            ELSE playNextInQueue([c1 EXCEPT !.isPlaying = FALSE,
                                            !.isSpeaking = FALSE])

\* the catch block of playNextInQueue after a rejected play()
CatchBlock(c) ==
    playNextInQueue([c EXCEPT !.isPlaying = FALSE, !.isSpeaking = FALSE])

\* revokeUrl of item i
revokeUrl(c, i) ==
    playNextInQueue([c EXCEPT !.elements[i].url = "revoked",
                              !.isPlaying = FALSE,
                              !.isSpeaking = FALSE])

SetPlayer(c) ==
    /\ audioQueue' = c.queue
    /\ isPlaying' = c.isPlaying
    /\ isSpeaking' = c.isSpeaking
    /\ elements' = c.elements
    /\ started' = c.started

\* setMessages of case "audio"
ExtendTranscript(prev, text) ==
    IF prev # <<>> /\ prev[Len(prev)].role = "assistant"
    THEN [prev EXCEPT ![Len(prev)].content = @ \o <<WS>> \o text]
    ELSE Append(prev, [role |-> "assistant", content |-> text])

\* case "audio" of ws.onmessage
AudioCase(prev, audio, text) ==
    /\ messages' = ExtendTranscript(prev, text)
    /\ SetPlayer(playNextInQueue(
            [PlayerState EXCEPT
                !.queue = Append(@, [audio |-> audio, text |-> text,
                                     id |-> narrivals + 1])]))

ClientInit ==
    /\ messages = <<>>
    /\ isSpeaking = FALSE
    /\ isListening = FALSE
    /\ status = "Disconnected"
    /\ audioQueue = <<>>
    /\ isPlaying = FALSE
    /\ elements = [i \in Items |-> NoElement]
    /\ started = <<>>
    /\ narrivals = 0

\* ws.onmessage, {"type":"status"}
OnStatus(text) ==
    /\ narrivals < MaxArrivals
    /\ narrivals' = narrivals + 1
    /\ status' = text
    /\ isSpeaking' = IF text = "Speaking..." THEN TRUE ELSE isSpeaking
    /\ isListening' = IF text = "Idle" THEN FALSE ELSE isListening
    /\ UNCHANGED << fvars, rvars, svars, messages, audioQueue, isPlaying,
                    elements, started >>

\* ws.onmessage, {"type":"text"}: the case has no break and runs on into
\* case "audio", with data.audio undefined
OnText(text) ==
    /\ narrivals < MaxArrivals
    /\ narrivals' = narrivals + 1
    /\ AudioCase(Append(messages, [role |-> "user", content |-> text]),
                 Null, text)
    /\ UNCHANGED << fvars, rvars, svars, isListening, status >>

\* ws.onmessage, {"type":"audio"}
OnAudio(audio, text) ==
    /\ narrivals < MaxArrivals
    /\ narrivals' = narrivals + 1
    /\ AudioCase(messages, audio, text)
    /\ UNCHANGED << fvars, rvars, svars, isListening, status >>

\* ws.onmessage, {"type":"error"}
OnError ==
    /\ narrivals < MaxArrivals
    /\ narrivals' = narrivals + 1
    /\ status' = "Error"
    /\ UNCHANGED << fvars, rvars, svars, messages, isSpeaking, isListening,
                    audioQueue, isPlaying, elements, started >>

\* the promise of play() of item i resolves: playback has started
PlayResolved(i) ==
    /\ elements[i].play = "pending"
    /\ elements[i].ev = "none"
    /\ elements' = [elements EXCEPT ![i].play = "resolved"]
    /\ UNCHANGED << fvars, rvars, svars, messages, isSpeaking, isListening,
                    status, audioQueue, isPlaying, started, narrivals >>

\* audioElement.onended of item i
PlaybackEnded(i) ==
    /\ elements[i].play = "resolved"
    /\ elements[i].ev = "none"
    /\ SetPlayer(revokeUrl([PlayerState EXCEPT !.elements[i].ev = "ended"], i))
    /\ UNCHANGED << fvars, rvars, svars, messages, isListening, status,
                    narrivals >>

\* audioElement.onerror of item i: the source fails to load (the promise of
\* play() is then still pending and is rejected next) or fails to decode
\* during playback
ElementError(i) ==
    /\ elements[i].play \in {"pending", "resolved"}
    /\ elements[i].ev = "none"
    /\ SetPlayer(revokeUrl([PlayerState EXCEPT !.elements[i].ev = "error"], i))
    /\ UNCHANGED << fvars, rvars, svars, messages, isListening, status,
                    narrivals >>

\* the promise of play() of item i is rejected (playback not allowed, or the
\* source failed to load): the catch block of playNextInQueue
PlayRejected(i) ==
    /\ elements[i].play = "pending"
    /\ SetPlayer(CatchBlock([PlayerState EXCEPT
                                !.elements[i].play = "rejected"]))
    /\ UNCHANGED << fvars, rvars, svars, messages, isListening, status,
                    narrivals >>

ClientNext ==
    \/ \E t \in {"ready", "Speaking...", "Idle"} : OnStatus(t)
    \/ \E t \in UserTexts : OnText(t)
    \/ \E a \in AudioFields, t \in ChunkTexts : OnAudio(a, t)
    \/ OnError
    \/ \E i \in Items : PlayResolved(i)
    \/ \E i \in Items : PlaybackEnded(i)
    \/ \E i \in Items : ElementError(i)
    \/ \E i \in Items : PlayRejected(i)

\* --------------------------------------------------------- specifications
\* -------------------------------------------------------------- segmenter
\* The transform smoothStream puts on the completion stream, with the
\* chunking function of generateAndSpeakResponse. The alphabet has no line
\* terminator, so "." of the pattern matches every character.
Terminators == { ".", "!", "?" }

\* buf.length above which a buffer without a sentence end is emitted whole
ClauseLimit == 120

\* the ends of (.+?[.!?]) that (?:\s+|$) can follow in buf
SentenceEnds(buf) ==
    { i \in 2..Len(buf) :
        /\ buf[i] \in Terminators
        /\ (i = Len(buf) \/ buf[i + 1] = WS) }

\* the end of the greedy \s+ that starts after position i
RECURSIVE SkipSpaces(_, _)
SkipSpaces(buf, i) ==
    IF i < Len(buf) /\ buf[i + 1] = WS THEN SkipSpaces(buf, i + 1) ELSE i

\* a clause rule that fires at the limit itself
chunkingAtLimit(buf) ==
    IF SentenceEnds(buf) # {}
    THEN SubSeq(buf, 1, SkipSpaces(buf, MinOf(SentenceEnds(buf))))
    ELSE IF Len(buf) >= ClauseLimit THEN buf ELSE Null

\* chunking: m[0] of the first, lazy match of /^(.+?[.!?])(?:\s+|$)/, else
\* the whole buffer once it is long, else null
chunking(buf) ==
    IF SentenceEnds(buf) # {}
    THEN SubSeq(buf, 1, SkipSpaces(buf, MinOf(SentenceEnds(buf))))
    ELSE IF Len(buf) > ClauseLimit THEN buf ELSE Null

\* the loop of the transform: emit matches while the buffer has one
RECURSIVE DetectChunks(_)
DetectChunks(buf) ==
    LET match == chunking(buf) IN
        IF match = Null
        THEN [out |-> <<>>, buffer |-> buf]
        ELSE LET rest == DetectChunks(SubSeq(buf, Len(match) + 1, Len(buf)))
             IN [out |-> << match >> \o rest.out, buffer |-> rest.buffer]

\* smoothStream: every delta is added to the buffer and the matches are
\* emitted; the end of the stream flushes what the buffer still holds
RECURSIVE smoothStream(_, _)
smoothStream(deltas, buffer) ==
    IF deltas = <<>>
    THEN IF buffer = <<>> THEN <<>> ELSE << buffer >>
    ELSE LET d == DetectChunks(buffer \o Head(deltas))
         IN d.out \o smoothStream(Tail(deltas), d.buffer)

\* the deltas "Hello there." and " How can I help?"
HelloDeltas ==
    << << "H", "e", "l", "l", "o", WS, "t", "h", "e", "r", "e", "." >>,
       << WS, "H", "o", "w", WS, "c", "a", "n", WS, "I", WS,
          "h", "e", "l", "p", "?" >> >>

\* result.textStream for these deltas
HelloStream == smoothStream(HelloDeltas, <<>>)

\* the for-await loop of frame f takes the next chunk of that stream
HelloChunk(f) ==
    /\ streamPos[f] < Len(HelloStream)
    /\ StreamChunk(f, HelloStream[streamPos[f] + 1])

\* that stream is exhausted
HelloEnd(f) ==
    /\ streamPos[f] = Len(HelloStream)
    /\ StreamEnd(f)

\* the server with every completion stream emitting these deltas
HelloNext ==
    \/ HandleSession
    \/ ReceiveAudio
    \/ \E f \in Frames, o \in WhisperOutcomes : TranscribeDone(f, o)
    \/ \E f \in Frames : HelloChunk(f)
    \/ \E f \in Frames : HelloEnd(f)
    \/ \E f \in Frames, k \in 1..MaxChunks, o \in TtsOutcomes : TtsDone(f, k, o)
    \/ ClearCmd
    \/ MalformedFrame
    \/ OtherCmd

\* ------------------------------------------------------ segmenter, stepwise
MaxDeltas == 3      \* deltas of one completion stream

\* a delta of sixty letters, half the clause limit
LongDelta == [i \in 1..(ClauseLimit \div 2) |-> "a"]

\* the deltas a stream can carry
Deltas ==
    { << "a" >>, << "." >>, << WS >>, << "a", "." >>, << "?", WS >>,
      << WS, "b" >>, << "a", "!", WS, WS, "b" >>, LongDelta }

\* the streams: one to MaxDeltas deltas
DeltaStreams == UNION { [1..n -> Deltas] : n \in 1..MaxDeltas }

\* nothing is being segmented
SegmenterInit ==
    /\ segAll = <<>>
    /\ segPos = 0
    /\ segBuffer = <<>>
    /\ segOut = <<>>
    /\ segPhase = "idle"
    /\ segTail = <<>>
    /\ segTaken = 0
    /\ segUnits = <<>>
    /\ segFull = <<>>

\* streamText with the transform: a fresh buffer for the stream
SegStart(deltas) ==
    /\ segPhase = "idle"
    /\ segAll' = deltas
    /\ segPhase' = "open"
    /\ UNCHANGED << svars, cvars, rvars, lvars, wvars, ovars, segPos,
                    segBuffer, segOut, segTail, segTaken, segUnits, segFull >>

\* a transform that drops what it does not enqueue
SegTransformDropsRest ==
    /\ segPhase = "open"
    /\ segPos < Len(segAll)
    /\ segPos' = segPos + 1
    /\ LET d == DetectChunks(segBuffer \o segAll[segPos + 1]) IN
        /\ segOut' = segOut \o d.out
        /\ segBuffer' = <<>>
    /\ UNCHANGED << svars, cvars, rvars, lvars, wvars, ovars, segAll,
                    segPhase, segTail, segTaken, segUnits, segFull >>

\* transform, text delta: buffer += delta, then enqueue while chunking matches
SegTransform ==
    /\ segPhase = "open"
    /\ segPos < Len(segAll)
    /\ segPos' = segPos + 1
    /\ LET d == DetectChunks(segBuffer \o segAll[segPos + 1]) IN
        /\ segOut' = segOut \o d.out
        /\ segBuffer' = d.buffer
    /\ UNCHANGED << svars, cvars, rvars, lvars, wvars, ovars, segAll,
                    segPhase, segTail, segTaken, segUnits, segFull >>

\* a transform that forgets its buffer at the end of the stream
SegFlushDropsTail ==
    /\ segPhase = "open"
    /\ segPos = Len(segAll)
    /\ segTail' = segBuffer
    /\ segBuffer' = <<>>
    /\ segPhase' = "ended"
    /\ UNCHANGED << svars, cvars, rvars, lvars, wvars, ovars, segAll, segPos,
                    segOut, segTaken, segUnits, segFull >>

\* transform, end of the stream: what the buffer holds is enqueued
SegFlush ==
    /\ segPhase = "open"
    /\ segPos = Len(segAll)
    /\ segOut' = IF segBuffer = <<>> THEN segOut ELSE Append(segOut, segBuffer)
    /\ segTail' = segBuffer
    /\ segBuffer' = <<>>
    /\ segPhase' = "ended"
    /\ UNCHANGED << svars, cvars, rvars, lvars, wvars, ovars, segAll, segPos,
                    segTaken, segUnits, segFull >>

\* one iteration of  for await (const chunk of result.textStream)  on the
\* chunks of this stream
SegLoop ==
    /\ segTaken < Len(segOut)
    /\ segTaken' = segTaken + 1
    /\ LET sentence == Trim(segOut[segTaken + 1]) IN
        IF sentence = <<>>
        THEN UNCHANGED << segUnits, segFull >>
        ELSE /\ segFull' = Accumulate(segFull, sentence)
             /\ segUnits' = Append(segUnits, sentence)
    /\ UNCHANGED << svars, cvars, rvars, lvars, wvars, ovars, segAll, segPos,
                    segBuffer, segOut, segPhase, segTail >>

SegmenterNext ==
    \/ \E deltas \in DeltaStreams : SegStart(deltas)
    \/ SegTransform
    \/ SegFlush
    \/ SegLoop

\* --------------------------------------------------------------- controls
MaxCalls == 3       \* presses of Start

\* the state a new AudioContext starts in
FreshStates == { "suspended", "running" }

\* the state unlockAudio reads and writes
UnlockState ==
    [unlocked |-> audioUnlocked, context |-> audioContext,
     contexts |-> contexts, resumes |-> resumeRequests]

\* an unlock that does not look at the flag
unlockAudioUnguarded(a, fresh) ==
    LET a1 == IF a.context = 0
              THEN [a EXCEPT !.contexts = Append(@, fresh),
                             !.context = Len(a.contexts) + 1]
              ELSE a
        a2 == IF a1.contexts[a1.context] = "suspended"
              THEN [a1 EXCEPT !.resumes = @ + 1]
              ELSE a1
    IN [a2 EXCEPT !.unlocked = TRUE]

\* unlockAudio; fresh is the state the browser gives a new context
unlockAudio(a, fresh) ==
    IF a.unlocked THEN a
    ELSE LET a1 == IF a.context = 0
                   THEN [a EXCEPT !.contexts = Append(@, fresh),
                                  !.context = Len(a.contexts) + 1]
                   ELSE a
             a2 == IF a1.contexts[a1.context] = "suspended"
                   THEN [a1 EXCEPT !.resumes = @ + 1]
                   ELSE a1
         IN [a2 EXCEPT !.unlocked = TRUE]

ControlsInit ==
    /\ audioUnlocked = FALSE
    /\ audioContext = 0
    /\ contexts = <<>>
    /\ resumeRequests = 0
    /\ unlockCalls = 0
    /\ wsState = "none"
    /\ wsRef = FALSE
    /\ isConnected = FALSE
    /\ closeHandlers = FALSE
    /\ startPc = "idle"

\* handleStart up to the await in connect: unlockAudio, new WebSocket,
\* wsRef, onopen and onmessage
HandleStart(fresh) ==
    /\ startPc = "idle"
    /\ wsState \in {"none", "closed"}
    /\ unlockCalls < MaxCalls
    /\ unlockCalls' = unlockCalls + 1
    /\ LET a == unlockAudio(UnlockState, fresh) IN
        /\ audioUnlocked' = a.unlocked
        /\ audioContext' = a.context
        /\ contexts' = a.contexts
        /\ resumeRequests' = a.resumes
    /\ wsState' = "connecting"
    /\ wsRef' = TRUE
    /\ closeHandlers' = FALSE
    /\ startPc' = "connecting"
    /\ UNCHANGED << svars, cvars, rvars, gvars, wvars, ovars, isConnected >>

\* ws.onopen, and waitForOpenConnection resolves
WsOpen ==
    /\ wsState = "connecting"
    /\ wsState' = "open"
    /\ status' = "Connecting...."
    /\ isConnected' = TRUE
    /\ startPc' = IF startPc = "connecting" THEN "timer" ELSE startPc
    /\ UNCHANGED << svars, rvars, gvars, wvars, ovars, messages, isSpeaking,
                    isListening, audioQueue, isPlaying, elements, started,
                    narrivals, audioUnlocked, audioContext, contexts,
                    resumeRequests, unlockCalls, wsRef, closeHandlers >>

\* the socket fails to open: waitForOpenConnection rejects, the catch of
\* connect
WsError ==
    /\ wsState = "connecting"
    /\ wsState' = "closed"
    /\ status' = "Connection failed"
    /\ startPc' = IF startPc = "connecting" THEN "timer" ELSE startPc
    /\ UNCHANGED << svars, rvars, gvars, wvars, ovars, messages, isSpeaking,
                    isListening, audioQueue, isPlaying, elements, started,
                    narrivals, audioUnlocked, audioContext, contexts,
                    resumeRequests, unlockCalls, wsRef, isConnected,
                    closeHandlers >>

\* handleStart after connect and the timer: vad.start
StartListening ==
    /\ startPc = "timer"
    /\ startPc' = "idle"
    /\ isListening' = TRUE
    /\ status' = "Listening..."
    /\ UNCHANGED << svars, rvars, gvars, wvars, ovars, messages, isSpeaking,
                    audioQueue, isPlaying, elements, started, narrivals,
                    audioUnlocked, audioContext, contexts, resumeRequests,
                    unlockCalls, wsState, wsRef, isConnected, closeHandlers >>

\* ws.onmessage with the status message ready: at its end onerror and
\* onclose are assigned
WsReady ==
    /\ wsState = "open"
    /\ status' = "ready"
    /\ closeHandlers' = TRUE
    /\ UNCHANGED << svars, rvars, gvars, wvars, ovars, messages, isSpeaking,
                    isListening, audioQueue, isPlaying, elements, started,
                    narrivals, audioUnlocked, audioContext, contexts,
                    resumeRequests, unlockCalls, wsState, wsRef, isConnected,
                    startPc >>

\* handleStop, or the server going away: the socket closes; ws.onclose runs
\* if it was assigned
SocketCloses(byStop) ==
    /\ wsState \in {"connecting", "open"}
    /\ startPc = "idle"
    /\ wsState' = "closed"
    /\ isListening' = IF byStop THEN FALSE ELSE isListening
    /\ IF closeHandlers
       THEN /\ isConnected' = FALSE
            /\ status' = "Disconnected"
            /\ wsRef' = FALSE
       ELSE UNCHANGED << isConnected, status, wsRef >>
    /\ UNCHANGED << svars, rvars, gvars, wvars, ovars, messages, isSpeaking,
                    audioQueue, isPlaying, elements, started, narrivals,
                    audioUnlocked, audioContext, contexts, resumeRequests,
                    unlockCalls, closeHandlers, startPc >>

\* the browser changes the state of a context: a requested resume settles,
\* or a running context is suspended
ContextChanges(k, st) ==
    /\ k \in DOMAIN contexts
    /\ contexts[k] # st
    /\ st = "running" => resumeRequests > 0
    /\ contexts' = [contexts EXCEPT ![k] = st]
    /\ UNCHANGED << svars, cvars, rvars, gvars, wvars, ovars, audioUnlocked,
                    audioContext, resumeRequests, unlockCalls, wsState,
                    wsRef, isConnected, closeHandlers, startPc >>

ControlsNext ==
    \/ \E fresh \in FreshStates : HandleStart(fresh)
    \/ WsOpen
    \/ WsError
    \/ StartListening
    \/ WsReady
    \/ \E byStop \in BOOLEAN : SocketCloses(byStop)
    \/ \E k \in 1..MaxCalls, st \in FreshStates : ContextChanges(k, st)

\* ------------------------------------------------------------ WAV encoder
\* Numbers that may pass 2^31 are kept as two digits of base 2^16, so the
\* 32-bit fields keep their width.
Base16 == 65536

Wide(n) == [hi |-> n \div Base16, lo |-> n % Base16]

\* a * k for a small k
WideTimes(a, k) ==
    [hi |-> a.hi * k + (a.lo * k) \div Base16, lo |-> (a.lo * k) % Base16]

\* str.charCodeAt(i) for the characters of the header's tags
CharCode(ch) ==
    CASE ch = "R" -> 82 [] ch = "I" -> 73 [] ch = "F" -> 70
      [] ch = "W" -> 87 [] ch = "A" -> 65 [] ch = "V" -> 86 [] ch = "E" -> 69
      [] ch = "f" -> 102 [] ch = "m" -> 109 [] ch = "t" -> 116
      [] ch = " " -> 32 [] ch = "d" -> 100 [] ch = "a" -> 97

\* the bytes setUint8 stores for the characters of str
StringBytes(str) == [i \in 1..Len(str) |-> CharCode(str[i]) % 256]

\* the bytes view.setUint32(offset, x, true) stores: x modulo 2^32, low
\* byte first
Uint32LE(x) ==
    << x.lo % 256, x.lo \div 256, (x.hi % Base16) % 256,
       (x.hi % Base16) \div 256 >>

\* the bytes view.setUint16(offset, n, true) stores
Uint16LE(n) == << (n % Base16) % 256, (n % Base16) \div 256 >>

\* n / d rounded toward zero, d > 0
TruncDiv(n, d) == IF n >= 0 THEN n \div d ELSE -((-n) \div d)

\* the bytes view.setInt16(offset, n / d, true) stores: the integer part,
\* modulo 2^16, low byte first
Int16LE(n, d) == Uint16LE(TruncDiv(n, d) % Base16)

\* the samples are multiples of 1 / SampleUnit
SampleUnit == 4

\* Math.max(-1, Math.min(1, q / SampleUnit)), in the same unit
Clamp(q) ==
    IF q < -SampleUnit THEN -SampleUnit
    ELSE IF q > SampleUnit THEN SampleUnit ELSE q

\* one scale for both signs
PcmScaledOneScale(q) == Clamp(q) * 32768

\* pcmSample times SampleUnit
PcmScaled(q) == IF Clamp(q) < 0 THEN Clamp(q) * 32768 ELSE Clamp(q) * 32767

\* a write of bytes into the buffer at a byte offset
Put(buf, offset, bytes) ==
    [i \in DOMAIN buf |->
        IF i > offset /\ i <= offset + Len(bytes)
        THEN bytes[i - offset] ELSE buf[i]]

\* the writes of the sample loop from sample i on
RECURSIVE PutSamples(_, _, _, _)
PutSamples(buf, offset, samples, i) ==
    IF i > Len(samples) THEN buf
    ELSE PutSamples(Put(buf, offset, Int16LE(PcmScaled(samples[i]), SampleUnit)),
                    offset + 2, samples, i + 1)

\* file size minus the whole header
RiffSizeOfData(bufferSize) == bufferSize - 44

\* bufferSize - 8
RiffSize(bufferSize) == bufferSize - 8

encodeWavPCM16(samples, sampleRate) ==
    LET numChannels == 1
        bitsPerSample == 16
        bytesPerSample == bitsPerSample \div 8
        blockAlign == numChannels * bytesPerSample
        byteRate == WideTimes(sampleRate, blockAlign)
        dataSize == Len(samples) * bytesPerSample
        bufferSize == 44 + dataSize
        b0 == [i \in 1..bufferSize |-> 0]
        b1 == Put(b0, 0, StringBytes(<< "R", "I", "F", "F" >>))
        b2 == Put(b1, 4, Uint32LE(Wide(RiffSize(bufferSize))))
        b3 == Put(b2, 8, StringBytes(<< "W", "A", "V", "E" >>))
        b4 == Put(b3, 12, StringBytes(<< "f", "m", "t", " " >>))
        b5 == Put(b4, 16, Uint32LE(Wide(16)))
        b6 == Put(b5, 20, Uint16LE(1))
        b7 == Put(b6, 22, Uint16LE(numChannels))
        b8 == Put(b7, 24, Uint32LE(sampleRate))
        b9 == Put(b8, 28, Uint32LE(byteRate))
        b10 == Put(b9, 32, Uint16LE(blockAlign))
        b11 == Put(b10, 34, Uint16LE(bitsPerSample))
        b12 == Put(b11, 36, StringBytes(<< "d", "a", "t", "a" >>))
        b13 == Put(b12, 40, Uint32LE(Wide(dataSize)))
    IN PutSamples(b13, 44, samples, 1)

MaxSamples == 2     \* samples of one call

\* sample values, in quarters: -1.5, -1, -0.25, 0, 0.25, 0.5, 0.75, 1, 1.5
SampleValues == { -6, -4, -1, 0, 1, 2, 3, 4, 6 }

SampleSeqs == UNION { [1..n -> SampleValues] : n \in 0..MaxSamples }

\* sample rates: 0, 8000, 16000, 44100, 2^31 - 1, 2^31, 2^32 - 1, 2^32
SampleRates ==
    { Wide(0), Wide(8000), Wide(16000), Wide(44100),
      [hi |-> 32767, lo |-> 65535], [hi |-> 32768, lo |-> 0],
      [hi |-> 65535, lo |-> 65535], [hi |-> 65536, lo |-> 0] }

WavInit ==
    /\ wavSamples = <<>>
    /\ wavRate = Wide(0)
    /\ wavOut = <<>>
    /\ wavPhase = "idle"

\* onSpeechEnd: encodeWavPCM16(audio, sampleRate)
EncodeWav(samples, sampleRate) ==
    /\ wavPhase = "idle"
    /\ wavSamples' = samples
    /\ wavRate' = sampleRate
    /\ wavOut' = encodeWavPCM16(samples, sampleRate)
    /\ wavPhase' = "done"
    /\ UNCHANGED << svars, cvars, rvars, gvars, lvars, ovars >>

\* the next utterance
WavAgain ==
    /\ wavPhase = "done"
    /\ wavSamples' = <<>>
    /\ wavRate' = Wide(0)
    /\ wavOut' = <<>>
    /\ wavPhase' = "idle"
    /\ UNCHANGED << svars, cvars, rvars, gvars, lvars, ovars >>

WavNext ==
    \/ \E samples \in SampleSeqs, r \in SampleRates : EncodeWav(samples, r)
    \/ WavAgain

\* ------------------------------------------------------------- b64ToBlob
\* A base64 text is a sequence of characters: 0..63 are the alphabet's
\* characters by value, the others are named here.
PadChar == 64       \* "="
BadChar == 65       \* a character outside the alphabet, e.g. "*"
SpaceChar == 66     \* whitespace

\* base64.length < 20
InspectLength == 20

\* btoa(String.fromCharCode(...uint8Array))
RECURSIVE btoa(_)
btoa(bytes) ==
    IF Len(bytes) = 0 THEN << >>
    ELSE IF Len(bytes) = 1
    THEN << bytes[1] \div 4, (bytes[1] % 4) * 16, PadChar, PadChar >>
    ELSE IF Len(bytes) = 2
    THEN << bytes[1] \div 4, (bytes[1] % 4) * 16 + bytes[2] \div 16,
            (bytes[2] % 16) * 4, PadChar >>
    ELSE << bytes[1] \div 4, (bytes[1] % 4) * 16 + bytes[2] \div 16,
            (bytes[2] % 16) * 4 + bytes[3] \div 64, bytes[3] % 64 >>
         \o btoa(SubSeq(bytes, 4, Len(bytes)))

IsSpace(ch) == ch = SpaceChar

NotSpace(ch) == ~IsSpace(ch)

\* base64.replace(/\s/g, "")
cleanBase64(base64) == SelectSeq(base64, NotSpace)

\* the padding atob removes: one or two "=" at the end of a text whose
\* length is a multiple of 4
Unpadded(chars) ==
    IF Len(chars) > 0 /\ Len(chars) % 4 = 0 /\ chars[Len(chars)] = PadChar
    THEN IF chars[Len(chars) - 1] = PadChar
         THEN SubSeq(chars, 1, Len(chars) - 2)
         ELSE SubSeq(chars, 1, Len(chars) - 1)
    ELSE chars

\* the bytes of the alphabet characters chars, leftover bits dropped
RECURSIVE DecodeGroups(_)
DecodeGroups(chars) ==
    IF Len(chars) < 2 THEN << >>
    ELSE IF Len(chars) = 2
    THEN << chars[1] * 4 + chars[2] \div 16 >>
    ELSE IF Len(chars) = 3
    THEN << chars[1] * 4 + chars[2] \div 16,
            (chars[2] % 16) * 16 + chars[3] \div 4 >>
    ELSE << chars[1] * 4 + chars[2] \div 16,
            (chars[2] % 16) * 16 + chars[3] \div 4,
            (chars[3] % 4) * 64 + chars[4] >>
         \o DecodeGroups(SubSeq(chars, 5, Len(chars)))

\* atob: whitespace is ignored, padding removed; it throws (ok = FALSE) on
\* a length of 1 modulo 4 and on a character outside the alphabet
atob(text) ==
    LET data == Unpadded(cleanBase64(text))
        ok == /\ Len(data) % 4 # 1
              /\ \A i \in 1..Len(data) : data[i] \in 0..63
    IN [ok |-> ok, bytes |-> IF ok THEN DecodeGroups(data) ELSE << >>]

\* decoded.startsWith(s)
StartsWith(bytes, s) ==
    Len(bytes) >= Len(s) /\ SubSeq(bytes, 1, Len(s)) = s

\* decoded.includes(s)
Includes(bytes, s) ==
    \E k \in 0..(Len(bytes) - Len(s)) : SubSeq(bytes, k + 1, k + Len(s)) = s

\* base64.substring(0, 20), for the whole text
substringAll(base64) == base64

\* base64.substring(0, 20)
substring(base64) ==
    SubSeq(base64, 1,
           IF Len(base64) < InspectLength THEN Len(base64) ELSE InspectLength)

sniffAudioMime(base64) ==
    IF base64 = << >> \/ Len(base64) < InspectLength THEN "audio/wav"
    ELSE LET decoded == atob(substring(base64)) IN
         IF ~decoded.ok THEN "audio/wav"
         ELSE IF /\ StartsWith(decoded.bytes, << 82, 73, 70, 70 >>)
                 /\ Includes(decoded.bytes, << 87, 65, 86, 69 >>)
         THEN "audio/wav"
         ELSE IF /\ Len(decoded.bytes) >= 2
                 /\ decoded.bytes[1] = 255
                 /\ (decoded.bytes[2] \div 32) % 8 = 7
         THEN "audio/mpeg"
         ELSE "audio/wav"

MaxPayload == 16    \* bytes of one audio payload

\* leading bytes of a payload: a WAV header, RIFF without WAVE, four MPEG
\* sync candidates (0xFF 0xFB, 0xFF 0xE0, 0xFF 0xDF, 0xFE 0xFB), an ID3 tag
PayloadHeads ==
    { << 82, 73, 70, 70, 36, 0, 0, 0, 87, 65, 86, 69 >>,
      << 82, 73, 70, 70, 36, 0, 0, 0, 65, 86, 73, 32 >>,
      << 255, 251 >>, << 255, 224 >>, << 255, 223 >>, << 254, 251 >>,
      << 73, 68, 51 >> }

\* the bytes after the head
Fillers == { 0, 255 }

AudioBytes(head, len, fill) ==
    [i \in 1..len |-> IF i <= Len(head) THEN head[i] ELSE fill]

\* what happened to the text on its way: nothing, a foreign character among
\* the leading ones, a foreign character after them, a line break
Damages == { "none", "head", "tail", "space" }

Damaged(text, damage) ==
    CASE damage = "head" /\ Len(text) >= 3 ->
            [text EXCEPT ![3] = BadChar]
      [] damage = "tail" /\ Len(text) > InspectLength ->
            [text EXCEPT ![InspectLength + 1] = BadChar]
      [] damage = "space" /\ Len(text) >= 2 ->
            SubSeq(text, 1, 2) \o << SpaceChar >> \o SubSeq(text, 3, Len(text))
      [] OTHER -> text

SniffInit ==
    /\ sniffPayload = << >>
    /\ sniffDamage = "none"
    /\ sniffText = << >>
    /\ sniffMime = "none"
    /\ sniffPhase = "idle"

\* b64ToBlob up to the classification; an empty text throws before it
b64ToBlob(payload, damage) ==
    /\ sniffPhase = "idle"
    /\ LET base64 == Damaged(btoa(payload), damage) IN
        /\ sniffPayload' = payload
        /\ sniffDamage' = IF base64 = btoa(payload) THEN "none" ELSE damage
        /\ sniffText' = cleanBase64(base64)
        /\ IF cleanBase64(base64) = << >>
           THEN sniffMime' = "none" /\ sniffPhase' = "threw"
           ELSE /\ sniffMime' = sniffAudioMime(cleanBase64(base64))
                /\ sniffPhase' = "done"
    /\ UNCHANGED << svars, cvars, rvars, gvars, lvars, wvars, kvars, qvars >>

\* the next audio message
SniffAgain ==
    /\ sniffPhase # "idle"
    /\ sniffPayload' = << >>
    /\ sniffDamage' = "none"
    /\ sniffText' = << >>
    /\ sniffMime' = "none"
    /\ sniffPhase' = "idle"
    /\ UNCHANGED << svars, cvars, rvars, gvars, lvars, wvars, kvars, qvars >>

SniffNext ==
    \/ \E head \in PayloadHeads, len \in 0..MaxPayload, fill \in Fillers,
          damage \in Damages : b64ToBlob(AudioBytes(head, len, fill), damage)
    \/ SniffAgain

\* ------------------------------------------------- document vectorization
\* src/vectorize-example/src/services/queue.service.ts: processQueueBatch,
\* the consumer of the queue of document chunks.
MaxBatch == 3       \* messages of one batch

\* message.body of a queued chunk
Bodies ==
    { [docId |-> d, chunkIndex |-> c, text |-> << "t", d, c >>] :
        d \in {1, 2}, c \in {0, 1} }

Batches == UNION { [1..n -> Bodies] : n \in 1..MaxBatch }

\* the embedding of a text
Embedding(text) == << "e", text >>

\* what env.AI.run(EMBEDDING_MODEL, ...) can do with n texts: raise, answer
\* without data, answer with the embedding of text k missing, or answer
\* with all of them (k = 0 where no single text is concerned)
EmbeddingOutcomes(n) ==
    { [kind |-> "raises", k |-> 0], [kind |-> "nodata", k |-> 0],
      [kind |-> "all", k |-> 0] }
        \cup { [kind |-> "short", k |-> k] : k \in 1..n }

\* embeddingResult.data, Null when it is missing
EmbeddingData(texts, o) ==
    CASE o.kind = "all" -> [i \in 1..Len(texts) |-> Embedding(texts[i])]
      [] o.kind = "short" ->
            [i \in 1..(Len(texts) - 1) |->
                Embedding(texts[IF i < o.k THEN i ELSE i + 1])]
      [] OTHER -> Null

\* the check after the call: data present and one embedding per text
EmbeddingsComplete(data, texts) == data # Null /\ Len(data) = Len(texts)

\* the vector of message body msg
VectorRecord(msg, embedding) ==
    [id |-> << msg.docId, "-chunk-", msg.chunkIndex >>,
     values |-> embedding,
     docId |-> msg.docId, chunkIndex |-> msg.chunkIndex]

\* embeddingResult.data.map(...)
Vectors(data, messageData) ==
    [i \in 1..Len(data) |-> VectorRecord(messageData[i], data[i])]

\* a catch that retries nothing
RetryNone(calls) == calls

\* the loop  for (const message of batch.messages) message.retry()
RetryAll(calls) == [i \in DOMAIN calls |-> calls[i] + 1]

\* the loop  for (const message of batch.messages) message.ack()
AckAll(calls) == [i \in DOMAIN calls |-> calls[i] + 1]

QueueInit ==
    /\ batch = << >>
    /\ acks = << >>
    /\ retries = << >>
    /\ vectors = << >>
    /\ inserted = << >>
    /\ culprit = 0
    /\ rethrown = FALSE
    /\ qPhase = "idle"

\* processQueueBatch up to the await of env.AI.run
ProcessQueueBatch(b) ==
    /\ qPhase \in {"idle", "acked", "threw"}
    /\ batch' = b
    /\ acks' = [i \in 1..Len(b) |-> 0]
    /\ retries' = [i \in 1..Len(b) |-> 0]
    /\ vectors' = << >>
    /\ inserted' = << >>
    /\ culprit' = 0
    /\ rethrown' = FALSE
    /\ qPhase' = "embedding"
    /\ UNCHANGED << svars, cvars, rvars, gvars, lvars, wvars, nvars, kvars >>

\* the catch block: retry every message, rethrow
CatchBlockOfBatch ==
    /\ retries' = RetryAll(retries)
    /\ rethrown' = TRUE
    /\ qPhase' = "threw"

\* env.AI.run settled: the check, the vectors, up to the await of insert
EmbeddingDone(o) ==
    /\ qPhase = "embedding"
    /\ culprit' = o.k
    /\ LET texts == [i \in 1..Len(batch) |-> batch[i].text]
           data == EmbeddingData(texts, o)
       IN IF o.kind = "raises" \/ ~EmbeddingsComplete(data, texts)
          THEN /\ CatchBlockOfBatch
               /\ UNCHANGED vectors
          ELSE /\ vectors' = Vectors(data, batch)
               /\ qPhase' = "inserting"
               /\ UNCHANGED << retries, rethrown >>
    /\ UNCHANGED << svars, cvars, rvars, gvars, lvars, wvars, nvars, kvars,
                    batch, acks, inserted >>

\* env.DOCUMENT_INDEX.insert settled
InsertDone(raised) ==
    /\ qPhase = "inserting"
    /\ IF raised
       THEN /\ CatchBlockOfBatch
            /\ UNCHANGED << acks, inserted >>
       ELSE /\ inserted' = vectors
            /\ acks' = AckAll(acks)
            /\ qPhase' = "acked"
            /\ UNCHANGED << retries, rethrown >>
    /\ UNCHANGED << svars, cvars, rvars, gvars, lvars, wvars, nvars, kvars,
                    batch, vectors, culprit >>

QueueNext ==
    \/ \E b \in Batches : ProcessQueueBatch(b)
    \/ \E o \in EmbeddingOutcomes(Len(batch)) : EmbeddingDone(o)
    \/ \E raised \in BOOLEAN : InsertDone(raised)

\* --------------------------------------------------------------- sessions
\* The route /websocket and the objects it forwards to: several connections,
\* each served by the object its name resolves to.
Conns == {1, 2}

\* the names idFromName can be given
Names == 1..Cardinality(Conns)

\* one shared name for every connection
SessionNameShared(n) == 1

\* crypto.randomUUID(): the n-th call yields a name no earlier call yielded
SessionName(n) == n

\* this.msgHistory of the object serving connection c
HistoryOf(hists, stubs, c) == IF stubs[c] = 0 THEN <<>> ELSE hists[stubs[c]]

\* the chunks the streams of all connections have yielded
SessChunks == sessUnits[1] + sessUnits[2]

\* the clear commands connection c has sent
SessCleared(c) ==
    Cardinality({ i \in DOMAIN wsSent[c] :
                    wsSent[c][i] = Status("Chat cleared", c) })

\* the clear commands all connections have sent
SessCmds == SessCleared(1) + SessCleared(2)

SessionsInit ==
    /\ uuids = 0
    /\ stubOf = [c \in Conns |-> 0]
    /\ objHistory = [n \in Names |-> <<>>]
    /\ wsSent = [c \in Conns |-> <<>>]
    /\ sessPc = [c \in Conns |-> "none"]
    /\ sessUnits = [c \in Conns |-> 0]
    /\ sessDone = [c \in Conns |-> 0]

\* app.get("/websocket"): a name, the object of that name, fetch and
\* handleSession on it
Route(c) ==
    /\ stubOf[c] = 0
    /\ uuids' = uuids + 1
    /\ stubOf' = [stubOf EXCEPT ![c] = SessionName(uuids + 1)]
    /\ wsSent' = [wsSent EXCEPT ![c] = Append(@, Status("ready", c))]
    /\ sessPc' = [sessPc EXCEPT ![c] = "ready"]
    /\ UNCHANGED << fvars, svars, cvars, objHistory, sessUnits, sessDone >>

\* binary frame on connection c: handleAudioInput up to transcribeAudio
SessReceiveAudio(c) ==
    /\ sessPc[c] = "ready"
    /\ sessPc' = [sessPc EXCEPT ![c] = "transcribing"]
    /\ wsSent' = [wsSent EXCEPT ![c] = Append(@, Status("Processing....", c))]
    /\ UNCHANGED << fvars, svars, cvars, uuids, stubOf, objHistory,
                    sessUnits, sessDone >>

\* handleAudioInput of connection c after transcribeAudio settled
SessTranscribeDone(c, o) ==
    /\ sessPc[c] = "transcribing"
    /\ LET t == transcribeAudio(o) IN
        IF NoTranscription(t)
        THEN /\ wsSent' = [wsSent EXCEPT ![c] = Append(@, Status("Idle", c))]
             /\ sessPc' = [sessPc EXCEPT ![c] = "aborted"]
             /\ UNCHANGED objHistory
        ELSE /\ wsSent' = [wsSent EXCEPT ![c] = Append(@, TextMsg(t, c))]
             /\ objHistory' = [objHistory EXCEPT
                                ![stubOf[c]] = PushUser(@, t, c)]
             /\ sessPc' = [sessPc EXCEPT ![c] = "streaming"]
    /\ UNCHANGED << fvars, svars, cvars, uuids, stubOf, sessUnits, sessDone >>

\* the end of the turn of connection c: the assistant turn and status Idle
SessFinishTurn(c) ==
    /\ objHistory' = [objHistory EXCEPT
                        ![stubOf[c]] = PushAssistant(@, <<"a", ".">>, c)]
    /\ sessPc' = [sessPc EXCEPT ![c] = "done"]

\* one sentence of the stream of connection c: Speaking... and a task on the
\* queue of this call
SessStreamChunk(c) ==
    /\ sessPc[c] = "streaming"
    /\ SessChunks < MaxChunks
    /\ sessUnits' = [sessUnits EXCEPT ![c] = @ + 1]
    /\ wsSent' = [wsSent EXCEPT ![c] = Append(@, Status("Speaking...", c))]
    /\ UNCHANGED << fvars, svars, cvars, uuids, stubOf, objHistory, sessPc,
                    sessDone >>

\* the stream of connection c ends; with the queue idle the turn ends
SessStreamEnd(c) ==
    /\ sessPc[c] = "streaming"
    /\ IF sessDone[c] = sessUnits[c]
       THEN /\ SessFinishTurn(c)
            /\ wsSent' = [wsSent EXCEPT ![c] = Append(@, Status("Idle", c))]
       ELSE /\ sessPc' = [sessPc EXCEPT ![c] = "draining"]
            /\ UNCHANGED << objHistory, wsSent >>
    /\ UNCHANGED << fvars, svars, cvars, uuids, stubOf, sessUnits, sessDone >>

\* the stream of connection c raises: the listener's catch
SessStreamFail(c) ==
    /\ sessPc[c] = "streaming"
    /\ sessPc' = [sessPc EXCEPT ![c] = "failed"]
    /\ wsSent' = [wsSent EXCEPT ![c] = Append(@, ErrorMsg("stream error", c))]
    /\ UNCHANGED << fvars, svars, cvars, uuids, stubOf, objHistory,
                    sessUnits, sessDone >>

\* the next task of the queue of connection c settles with audio
SessTtsDone(c) ==
    /\ sessDone[c] < sessUnits[c]
    /\ sessDone' = [sessDone EXCEPT ![c] = @ + 1]
    /\ LET out == Append(wsSent[c],
                         AudioMsg(<<"a", ".">>, Payload, c, sessDone[c] + 1))
       IN IF sessPc[c] = "draining" /\ sessDone[c] + 1 = sessUnits[c]
          THEN /\ SessFinishTurn(c)
               /\ wsSent' = [wsSent EXCEPT ![c] = Append(out, Status("Idle", c))]
          ELSE /\ wsSent' = [wsSent EXCEPT ![c] = out]
               /\ UNCHANGED << objHistory, sessPc >>
    /\ UNCHANGED << fvars, svars, cvars, uuids, stubOf, sessUnits >>

\* clear command on connection c
SessClearCmd(c) ==
    /\ stubOf[c] # 0
    /\ SessCmds < MaxCmds
    /\ objHistory' = [objHistory EXCEPT ![stubOf[c]] = ClearHistory(@)]
    /\ wsSent' = [wsSent EXCEPT ![c] = Append(@, Status("Chat cleared", c))]
    /\ UNCHANGED << fvars, svars, cvars, uuids, stubOf, sessPc, sessUnits,
                    sessDone >>

SessionsNext ==
    \E c \in Conns :
        \/ Route(c)
        \/ SessReceiveAudio(c)
        \/ \E o \in WhisperOutcomes : SessTranscribeDone(c, o)
        \/ SessStreamChunk(c)
        \/ SessStreamEnd(c)
        \/ SessStreamFail(c)
        \/ SessTtsDone(c)
        \/ SessClearCmd(c)

\* ------------------------------------------------------------------ specs
vars == << svars, cvars, rvars, fvars >>

Init ==
    /\ ServerInit /\ ClientInit /\ SessionsInit
    /\ SegmenterInit /\ ControlsInit /\ WavInit /\ SniffInit
    /\ CloseInit /\ QueueInit

\* the server side of one connection
Next == ServerNext

Spec == Init /\ [][Next]_vars

\* the client side of one connection
NextClient == ClientNext

SpecClient == Init /\ [][NextClient]_vars

\* the route with its connections
NextSessions == SessionsNext

SpecSessions == Init /\ [][NextSessions]_vars

\* the server of one connection, its completion streams fixed
SpecHello == Init /\ [][HelloNext]_vars

\* the transform on one completion stream
SpecSegmenter == Init /\ [][SegmenterNext]_vars

\* the controls of the hook
SpecControls == Init /\ [][ControlsNext]_vars

\* calls of the WAV encoder
SpecWav == Init /\ [][WavNext]_vars

\* classifications of audio payloads
SpecSniff == Init /\ [][SniffNext]_vars

\* invocations of the queue consumer
SpecQueue == Init /\ [][QueueNext]_vars

\* the server with the close of its socket
SpecClose == Init /\ [][CloseNext]_vars

\* ======================================================== server properties
\* the audio messages sent for frame f, in send order
AudioOf(f) == SelectSeq(sent[f], LAMBDA m : m.type = "audio")

IsStatus(m, s) == m.type = "status" /\ m.text = s

\* the units of frame f whose task has finished
DoneUnits(f) == { k \in DOMAIN ttsQueue[f] : ttsQueue[f][k].st = "done" }

\* the units of frame f whose synthesis returned no audio or raised
FailedUnits(f) == { k \in DoneUnits(f) : Falsy(ttsQueue[f][k].result) }

\* the units of frame f that have an audio message
EmittedUnits(f) == { AudioOf(f)[i].unit : i \in DOMAIN AudioOf(f) }

\* C1: within one turn whose synthesis calls all return audio, the k-th audio
\* message is the one of the k-th unit and carries its text, whatever the
\* order in which events interleave; a completed turn of N units has sent
\* exactly N audio messages.
C1_AudioPerUnitInOrder ==
    \A f \in Frames :
        FailedUnits(f) = {} =>
            /\ Len(AudioOf(f)) = Cardinality(DoneUnits(f))
            /\ \A k \in DOMAIN AudioOf(f) :
                /\ AudioOf(f)[k].unit = k
                /\ AudioOf(f)[k].text = ttsQueue[f][k].text
                /\ AudioOf(f)[k].audio = ttsQueue[f][k].result
            /\ pc[f] = "done" => Len(AudioOf(f)) = Len(ttsQueue[f])

C1_Witness ==
    \E f \in Frames :
        /\ pc[f] = "done"
        /\ FailedUnits(f) = {}
        /\ Len(ttsQueue[f]) = 2
        /\ Len(AudioOf(f)) = 2

\* C2 as stated: the chunks of a turn come in unit order with no gap, so the
\* i-th chunk sent is the chunk of the i-th flushed unit.
C2_NoGapsAsStated ==
    \A f \in Frames : \A i \in DOMAIN AudioOf(f) : AudioOf(f)[i].unit = i

\* C2: the chunks of a turn are strictly increasing in unit position, a chunk
\* is sent only when every earlier unit has finished, and the only units
\* missing from the sequence are those whose synthesis returned no audio or
\* raised.
C2_OrderedGapsOnlyAtFailures ==
    \A f \in Frames :
        /\ \A i, j \in DOMAIN AudioOf(f) :
                i < j => AudioOf(f)[i].unit < AudioOf(f)[j].unit
        /\ \A i \in DOMAIN AudioOf(f) :
                \A k \in 1..AudioOf(f)[i].unit : k \in DoneUnits(f)
        /\ DoneUnits(f) \ EmittedUnits(f) = FailedUnits(f)

C2_Witness ==
    \E f \in Frames :
        /\ 1 \in FailedUnits(f)
        /\ 2 \in EmittedUnits(f)

\* C3: a turn's queue has at most one task running; the task of unit k+1 has
\* not started, and its audio is not sent, before the task of unit k has
\* finished, having sent its audio message or handled its failure.
C3_OneInFlightInOrder ==
    \A f \in Frames :
        /\ Pending(ttsQueue[f]) <= 1
        /\ \A k \in DOMAIN ttsQueue[f] :
            (k > 1 /\ (ttsQueue[f][k].st # "queued" \/ k \in EmittedUnits(f)))
                => /\ ttsQueue[f][k - 1].st = "done"
                   /\ (k - 1) \in EmittedUnits(f) \cup FailedUnits(f)

C3_Witness ==
    \E f \in Frames :
        /\ Len(ttsQueue[f]) = 2
        /\ ttsQueue[f][1].st = "done"
        /\ 1 \in EmittedUnits(f)
        /\ ttsQueue[f][2].st = "running"

\* C4: a unit whose synthesis returns no audio or raises gets no audio message
\* and the turn gets no error message; the queue goes on to the next unit, the
\* units that did get audio are sent in order, and once the stream has ended
\* and every task has finished the turn is complete: its last message is
\* status Idle and (no text frame having been received) its assistant turn is
\* in the history.
C4_FailedUnitDroppedTurnGoesOn ==
    \A f \in Frames :
        /\ FailedUnits(f) \cap EmittedUnits(f) = {}
        /\ pc[f] # "failed" =>
                \A i \in DOMAIN sent[f] : sent[f][i].type # "error"
        /\ \A k \in FailedUnits(f) :
                (k + 1) \in DOMAIN ttsQueue[f]
                    => ttsQueue[f][k + 1].st # "queued"
        /\ \A i, j \in DOMAIN AudioOf(f) :
                i < j => AudioOf(f)[i].unit < AudioOf(f)[j].unit
        /\ pc[f] = "draining" => DoneUnits(f) # DOMAIN ttsQueue[f]
        /\ pc[f] = "done" =>
                /\ DoneUnits(f) = DOMAIN ttsQueue[f]
                /\ EmittedUnits(f) = DoneUnits(f) \ FailedUnits(f)
                /\ IsStatus(sent[f][Len(sent[f])], "Idle")
                /\ ncmds = 0 =>
                        \E i \in DOMAIN msgHistory :
                            /\ msgHistory[i].role = "assistant"
                            /\ msgHistory[i].frame = f

C4_Witness ==
    \E f \in Frames :
        /\ pc[f] = "done"
        /\ FailedUnits(f) = {1}
        /\ EmittedUnits(f) = {2}

\* the turns of frame f with role r in a history
TurnsOf(hist, f, r) ==
    SelectSeq(hist, LAMBDA t : t.frame = f /\ t.role = r)

\* the positions of a frame's log holding a message of the given type
OfType(f, ty) == { i \in DOMAIN sent[f] : sent[f][i].type = ty }

\* C7: a frame whose transcription is null or empty gets exactly the messages
\* status Processing.... and status Idle, no text or audio message, no turn
\* (the history is left as it was), no completion call and no synthesis task;
\* and no frame goes past the transcription with a null or empty text.
C7_EmptyTranscriptionAborts ==
    /\ [](\A f \in Frames :
            /\ pc[f] = "aborted" =>
                /\ sent[f] = << Status("Processing....", f),
                               Status("Idle", f) >>
                /\ streamMessages[f] = <<>>
                /\ ttsQueue[f] = <<>>
                /\ \A i \in DOMAIN msgHistory : msgHistory[i].frame # f
            /\ pc[f] \in {"streaming", "draining", "failed", "done"} =>
                ~Falsy(transcription[f]))
    /\ [][\A f \in Frames :
            (pc[f] = "transcribing" /\ pc'[f] # "transcribing"
                    /\ Falsy(transcription'[f])) =>
                /\ pc'[f] = "aborted"
                /\ msgHistory' = msgHistory
                /\ streamMessages' = streamMessages
                /\ ttsQueue' = ttsQueue]_vars

C7_Witness ==
    /\ pc[2] = "aborted"
    /\ Len(msgHistory) = 2
    /\ pc[1] = "done"

\* C8: the assistant turn and status Idle of a turn come only when its stream
\* has ended and its queue holds no running or queued task: a completed turn
\* has every task finished and Idle as its last message, after every audio
\* message, the step that completes it leaves the queue idle, and a step that
\* sends an audio message of a turn is never taken after the turn completed.
C8_CompletionAfterDrain ==
    /\ [](\A f \in Frames :
            pc[f] = "done" =>
                /\ DoneUnits(f) = DOMAIN ttsQueue[f]
                /\ \A i \in OfType(f, "audio") :
                        \E j \in DOMAIN sent[f] :
                            i < j /\ IsStatus(sent[f][j], "Idle")
                /\ IsStatus(sent[f][Len(sent[f])], "Idle"))
    /\ [][\A f \in Frames :
            /\ (pc[f] # "done" /\ pc'[f] = "done") =>
                    /\ pc[f] \in {"streaming", "draining"}
                    /\ Pending(ttsQueue'[f]) = 0
                    /\ Queued(ttsQueue'[f]) = {}
            /\ pc[f] = "done" => sent'[f] = sent[f]
            /\ Len(TurnsOf(msgHistory', f, "assistant"))
                    > Len(TurnsOf(msgHistory, f, "assistant"))
                => pc'[f] = "done" /\ pc[f] # "done"]_vars

C8_Witness ==
    \E f \in Frames :
        /\ pc[f] = "done"
        /\ Len(AudioOf(f)) >= 2
        /\ Len(TurnsOf(msgHistory, f, "assistant")) = 1

\* the texts joined by single spaces
RECURSIVE JoinSpaces(_)
JoinSpaces(ts) ==
    IF ts = <<>> THEN <<>>
    ELSE IF Len(ts) = 1 THEN ts[1]
    ELSE ts[1] \o <<WS>> \o JoinSpaces(Tail(ts))

\* the texts of the units flushed for frame f, in flush order
UnitTexts(f) == [k \in DOMAIN ttsQueue[f] |-> ttsQueue[f][k].text]

\* C9: the step that completes a turn appends one assistant turn whose
\* content is the texts of the turn's flushed units joined by single spaces,
\* no other step appends an assistant turn, and so the history never holds
\* two assistant turns of one frame.
C9_AssistantTurnIsJoinedUnits ==
    /\ [](\A f \in Frames : Len(TurnsOf(msgHistory, f, "assistant")) <= 1)
    /\ [][\A f \in Frames :
            /\ (pc[f] # "done" /\ pc'[f] = "done") =>
                    msgHistory' =
                        Append(msgHistory,
                               Turn("assistant", JoinSpaces(UnitTexts(f)), f))
            /\ ~(pc[f] # "done" /\ pc'[f] = "done") =>
                    TurnsOf(msgHistory', f, "assistant")
                        \in { <<>>, TurnsOf(msgHistory, f, "assistant") }]_vars

C9_Witness ==
    \E i \in DOMAIN msgHistory :
        /\ msgHistory[i].role = "assistant"
        /\ msgHistory[i].content = << "a", ".", WS, "b", "." >>

\* C10: a frame whose transcription is a non-empty text gets one text message
\* holding it, right after Processing...., and one user turn holding it, both
\* in the step that starts the completion stream, and the history given to
\* the completion call ends with that user turn.
C10_UserTurnBeforeCompletion ==
    /\ [](\A f \in Frames :
            pc[f] \in {"streaming", "draining", "failed", "done"} =>
                /\ OfType(f, "text") = {2}
                /\ sent[f][2] = TextMsg(transcription[f], f)
                /\ streamMessages[f] # <<>>
                /\ streamMessages[f][Len(streamMessages[f])]
                        = Turn("user", transcription[f], f)
                /\ Len(TurnsOf(streamMessages[f], f, "user")) = 1
                /\ Len(TurnsOf(msgHistory, f, "user")) <= 1)
    /\ [][\A f \in Frames :
            /\ (pc[f] = "transcribing" /\ pc'[f] = "streaming") =>
                    /\ msgHistory' =
                         Append(msgHistory, Turn("user", transcription'[f], f))
                    /\ streamMessages'[f] = msgHistory'
            /\ ~(pc[f] = "transcribing" /\ pc'[f] = "streaming") =>
                    /\ streamMessages'[f] = streamMessages[f]
                    /\ TurnsOf(msgHistory', f, "user")
                        \in { <<>>, TurnsOf(msgHistory, f, "user") }]_vars

C10_Witness ==
    /\ pc[2] = "streaming"
    /\ Len(streamMessages[2]) = 3
    /\ streamMessages[2][2].role = "assistant"

\* the step handles a text frame of kind k
TextFrameStep(k) == textFrames' = Append(textFrames, k)

\* the kinds of text frames received so far
KindsSeen == { textFrames[i] : i \in DOMAIN textFrames }

\* C11: a clear command, whatever the turns in progress, leaves the history
\* empty and sends exactly one message, the status acknowledging the clear: no
\* text, audio or error message and no Processing...., Speaking... or Idle
\* status; no turn in progress changes its position.
C11_ClearEmptiesAndAcknowledges ==
    [][TextFrameStep("clear") =>
            /\ msgHistory' = <<>>
            /\ sent' = [sent EXCEPT ![0] = Append(@, Status("Chat cleared", 0))]
            /\ ~IsStatus(sent'[0][Len(sent'[0])], "Processing....")
            /\ ~IsStatus(sent'[0][Len(sent'[0])], "Speaking...")
            /\ ~IsStatus(sent'[0][Len(sent'[0])], "Idle")
            /\ pc' = pc
            /\ ttsQueue' = ttsQueue
            /\ accepted']_vars

\* the clear came while the turn of frame 1 was under way: its user turn is
\* gone and its assistant turn came after
C11_Witness ==
    /\ "clear" \in KindsSeen
    /\ pc[1] = "done"
    /\ TurnsOf(msgHistory, 1, "user") = <<>>
    /\ TurnsOf(msgHistory, 1, "assistant") # <<>>
    /\ \E i \in DOMAIN sent[0] : IsStatus(sent[0][i], "Chat cleared")

\* the completion stream of frame f raised
CompletionFailed(f) == << f, "completion", 0 >> \in failures

\* C12: when the completion stream of a turn raises, at its start or after
\* sentences were flushed, the step that handles it sends one error message
\* and leaves the history as it was; the turn has exactly one error message,
\* it never gets an assistant turn, and the text generated so far is in no
\* turn of the history.
C12_StreamFailureDiscardsResponse ==
    /\ [](\A f \in Frames :
            /\ CompletionFailed(f) <=> pc[f] = "failed"
            /\ Cardinality(OfType(f, "error")) =
                    IF CompletionFailed(f) THEN 1 ELSE 0
            /\ CompletionFailed(f) =>
                    /\ TurnsOf(msgHistory, f, "assistant") = <<>>
                    /\ \A i \in OfType(f, "status") :
                            ~IsStatus(sent[f][i], "Idle"))
    /\ [][\A f \in Frames :
            (CompletionFailed(f)' /\ ~CompletionFailed(f)) =>
                /\ msgHistory' = msgHistory
                /\ sent'[f] = Append(sent[f], ErrorMsg("stream error", f))
                /\ accepted']_vars

\* the stream of frame f raised after a sentence was flushed and spoken
C12_Witness ==
    \E f \in Frames :
        /\ pc[f] = "failed"
        /\ fullResponse[f] # <<>>
        /\ AudioOf(f) # <<>>
        /\ TurnsOf(msgHistory, f, "user") # <<>>

\* C13 as stated: every failure raised during transcription, completion or
\* synthesis has an error message sent for its turn.
C13_ErrorMessagePerFailure ==
    \A x \in failures : OfType(x[1], "error") # {}

\* C13: of the failures raised during a turn only a failure of the completion
\* stream is reported: the turn has one error message if its completion
\* raised and none otherwise. A raise during transcription is caught there
\* and handled as no transcription (Processing...., Idle, turn aborted); a
\* raise during the synthesis of a unit is caught there and the unit is
\* dropped with no message. After any of them the session is still open.
C13_OnlyCompletionFailureReported ==
    /\ failures # {} => accepted
    /\ \A f \in Frames :
        /\ Cardinality(OfType(f, "error")) =
                IF CompletionFailed(f) THEN 1 ELSE 0
        /\ CompletionFailed(f) =>
                sent[f][Len(sent[f])].type \in {"error", "audio"}
        /\ << f, "transcription", 0 >> \in failures =>
                /\ pc[f] = "aborted"
                /\ sent[f] = << Status("Processing....", f), Status("Idle", f) >>
        /\ \A k \in DOMAIN ttsQueue[f] :
                << f, "synthesis", k >> \in failures =>
                    /\ k \in FailedUnits(f)
                    /\ k \notin EmittedUnits(f)

\* all three kinds of failure have been raised
C13_Witness ==
    /\ << 1, "transcription", 0 >> \in failures
    /\ << 2, "synthesis", 1 >> \in failures
    /\ << 2, "completion", 0 >> \in failures

\* C14: a text frame that does not parse is caught: the step sends exactly
\* one message, an error message, leaves the history unchanged, starts or
\* advances no transcription, completion or synthesis, and leaves the
\* connection open.
C14_MalformedFrameCaught ==
    [][TextFrameStep("malformed") =>
            /\ sent' = [sent EXCEPT ![0] = Append(@, ErrorMsg("parse error", 0))]
            /\ msgHistory' = msgHistory
            /\ pc' = pc
            /\ ttsQueue' = ttsQueue
            /\ transcription' = transcription
            /\ streamMessages' = streamMessages
            /\ nchunks' = nchunks
            /\ nframes' = nframes
            /\ failures' = failures
            /\ accepted']_vars

\* a malformed frame was handled with turns in the history and a turn under
\* way
C14_Witness ==
    /\ "malformed" \in KindsSeen
    /\ Cardinality(OfType(0, "error")) = 1
    /\ msgHistory # <<>>
    /\ \E f \in Frames : pc[f] \in {"transcribing", "streaming", "draining"}

\* C15: nothing the session handles closes it: no step takes an accepted
\* connection out of the accepted state, and whatever frames, commands, empty
\* transcriptions, malformed frames, synthesis failures and completion
\* failures came before, the next audio frame is received (while the model
\* has a frame left) and handling it sends status Processing.... and starts
\* its transcription.
C15_NextFrameStillProcessed ==
    /\ []((accepted /\ nframes < Cardinality(Frames)) => ENABLED ReceiveAudio)
    /\ [][accepted => accepted']_vars
    /\ [][nframes' # nframes =>
            /\ nframes' = nframes + 1
            /\ sent'[nframes'] = << Status("Processing....", nframes') >>
            /\ pc'[nframes'] = "transcribing"]_vars

\* frame 2 is being transcribed although everything went wrong before it:
\* a malformed frame, a failed synthesis and a failed completion
C15_Witness ==
    /\ pc[2] = "transcribing"
    /\ pc[1] = "failed"
    /\ << 1, "synthesis", 1 >> \in failures
    /\ "malformed" \in KindsSeen
    /\ sent[2] = << Status("Processing....", 2) >>

\* C16: every connection is served by an object of its own, so the history
\* a connection's handlers read and write holds only that connection's turns,
\* and every step (an audio frame, a clear command, a failure, a settled
\* task) of one connection leaves the history, the queue and the socket of
\* every other connection as they were.
C16_SessionsIsolated ==
    /\ [](\A c, d \in Conns :
            (c # d /\ stubOf[c] # 0) => stubOf[c] # stubOf[d])
    /\ [](\A c \in Conns :
            /\ \A i \in DOMAIN HistoryOf(objHistory, stubOf, c) :
                    HistoryOf(objHistory, stubOf, c)[i].frame = c
            /\ \A i \in DOMAIN wsSent[c] : wsSent[c][i].frame = c)
    /\ [][\E c \in Conns : \A d \in Conns \ {c} :
            /\ HistoryOf(objHistory', stubOf', d)
                    = HistoryOf(objHistory, stubOf, d)
            /\ wsSent'[d] = wsSent[d]
            /\ sessUnits'[d] = sessUnits[d]
            /\ sessDone'[d] = sessDone[d]
            /\ sessPc'[d] = sessPc[d]]_vars

\* connection 1 finished a turn and then cleared its history while
\* connection 2 keeps the two turns of its own
C16_Witness ==
    /\ sessPc[1] = "done"
    /\ SessCleared(1) = 1
    /\ HistoryOf(objHistory, stubOf, 1) = <<>>
    /\ sessPc[2] = "done"
    /\ Len(HistoryOf(objHistory, stubOf, 2)) = 2

\* the positions of frame f's status messages with text s
StatusAt(f, s) == { i \in DOMAIN sent[f] : IsStatus(sent[f][i], s) }

\* C17: the messages of a turn begin with its one status Processing....; a
\* status Speaking... is sent for every unit flushed, the first of them when
\* the first unit is flushed, right after the text message and before every
\* audio message of the turn; a turn whose transcription was not empty and
\* whose completion succeeded ends with its one status Idle, after which it
\* sends nothing.
C17_StatusOrder ==
    \A f \in Frames :
        /\ sent[f] # <<>> => StatusAt(f, "Processing....") = {1}
        /\ Cardinality(StatusAt(f, "Speaking...")) = Len(ttsQueue[f])
        /\ ttsQueue[f] # <<>> => MinOf(StatusAt(f, "Speaking...")) = 3
        /\ \A i \in OfType(f, "audio") :
                \E j \in StatusAt(f, "Speaking...") : j < i
        /\ StatusAt(f, "Idle") \subseteq {Len(sent[f])}
        /\ pc[f] = "done" =>
                /\ ~Falsy(transcription[f])
                /\ StatusAt(f, "Idle") = {Len(sent[f])}
                /\ \A i \in StatusAt(f, "Speaking...") : 1 < i /\ i < Len(sent[f])

\* a turn alone on the connection went through Processing...., Speaking...
\* and audio for two units, and Idle
C17_Witness ==
    /\ pc[1] = "done"
    /\ pc[2] = "none"
    /\ Cardinality(StatusAt(1, "Speaking...")) = 2
    /\ Cardinality(OfType(1, "audio")) = 2
    /\ IsStatus(sent[1][Len(sent[1])], "Idle")

\* the messages sent so far with status text s, over all logs
StatusCount(s) ==
    Cardinality(UNION { { << g, i >> : i \in StatusAt(g, s) } :
                            g \in DOMAIN sent })

\* C18: before the connection is accepted nothing is sent and no frame is
\* handled; accepting it sends status ready as the first message; from then
\* on ready has been sent exactly once.
C18_ReadyFirstAndOnce ==
    /\ [](~accepted =>
            /\ \A g \in DOMAIN sent : sent[g] = <<>>
            /\ nframes = 0 /\ ncmds = 0 /\ textFrames = <<>>)
    /\ [](accepted =>
            /\ sent[0] # <<>> /\ sent[0][1] = Status("ready", 0)
            /\ StatusCount("ready") = 1)
    /\ [][(~accepted /\ accepted') =>
            sent' = [sent EXCEPT ![0] = << Status("ready", 0) >>]]_vars

\* two audio frames and a text frame were handled on the accepted connection
C18_Witness ==
    /\ accepted
    /\ nframes = 2
    /\ ncmds = 1
    /\ StatusCount("ready") = 1
    /\ Len(sent[0]) = 2

\* sequence s is a prefix of sequence t
IsPrefix(s, t) == Len(s) <= Len(t) /\ SubSeq(t, 1, Len(s)) = s

\* C19: every step that is not the handling of a clear command leaves the
\* history as it was or appends one turn at its end: no turn already there
\* is removed, moved or rewritten. The history gets shorter only in the step
\* of a clear command.
C19_AppendOnlyBetweenClears ==
    /\ [][~TextFrameStep("clear") =>
            /\ IsPrefix(msgHistory, msgHistory')
            /\ Len(msgHistory') <= Len(msgHistory) + 1]_vars
    /\ [][Len(msgHistory') < Len(msgHistory) => TextFrameStep("clear")]_vars

\* two overlapping turns appended their four turns and nothing was cleared
C19_Witness ==
    /\ Len(msgHistory) = 4
    /\ "clear" \notin KindsSeen
    /\ msgHistory[1].frame = 1 /\ msgHistory[2].frame = 2
    /\ msgHistory[3].role = "assistant" /\ msgHistory[4].role = "assistant"

\* the two units of the scenario
HelloUnits ==
    << << "H", "e", "l", "l", "o", WS, "t", "h", "e", "r", "e", "." >>,
       << "H", "o", "w", WS, "c", "a", "n", WS, "I", WS,
          "h", "e", "l", "p", "?" >> >>

\* C20: for the deltas "Hello there." and " How can I help?" the text stream
\* has two chunks which trim to "Hello there." and "How can I help?"; the
\* units a turn has flushed are the first of these two in this order, each
\* audio message carries the text of its unit, and a completed turn whose
\* synthesis calls all returned audio has sent exactly two audio messages,
\* with these two texts in this order.
C20_HelloThereTwoUnits ==
    /\ Len(HelloStream) = 2
    /\ [i \in 1..2 |-> Trim(HelloStream[i])] = HelloUnits
    /\ \A f \in Frames :
        /\ IsPrefix(UnitTexts(f), HelloUnits)
        /\ \A i \in DOMAIN AudioOf(f) :
                AudioOf(f)[i].text = HelloUnits[AudioOf(f)[i].unit]
        /\ (pc[f] = "done" /\ FailedUnits(f) = {}) =>
                [i \in DOMAIN AudioOf(f) |-> AudioOf(f)[i].text] = HelloUnits

\* a turn completed with audio for both units
C20_Witness ==
    \E f \in Frames :
        /\ pc[f] = "done"
        /\ streamPos[f] = 2
        /\ Len(AudioOf(f)) = 2
        /\ AudioOf(f)[1].text = HelloUnits[1]
        /\ AudioOf(f)[2].text = HelloUnits[2]

\* ===================================================== segmenter properties
\* the last element of a non-empty sequence
Last(s) == s[Len(s)]

\* C21 as stated: while deltas are still to come a chunk is flushed only for
\* a terminator followed by whitespace (the matched prefix then ends with
\* that whitespace) or for a buffer over the clause limit; a terminator that
\* is the last character of the buffer flushes nothing, and what is not
\* flushed stays in the buffer.
C21_NoFlushAtBufferEnd ==
    (segPhase = "open" /\ segPos < Len(segAll)) =>
        \A i \in DOMAIN segOut :
            \/ Last(segOut[i]) = WS
            \/ Len(segOut[i]) > ClauseLimit

\* the buffer the transform looks at in the step that takes the next delta
Grown == segBuffer \o segAll[segPos + 1]

\* the step takes a delta
TakesDelta == segPos' = segPos + 1

\* C22: when the buffer, with the new delta added, has no match of the
\* sentence pattern and is longer than 120 characters, the step flushes the
\* whole of it as one chunk; when it has no match and is at most 120
\* characters long the step flushes nothing and keeps it; so after every
\* delta the buffer kept is at most 120 characters long and has no match.
C22_ClauseLimit ==
    /\ [](Len(segBuffer) <= ClauseLimit /\ SentenceEnds(segBuffer) = {})
    /\ [][(TakesDelta /\ SentenceEnds(Grown) = {}) =>
            IF Len(Grown) > 120
            THEN segOut' = Append(segOut, Grown) /\ segBuffer' = <<>>
            ELSE segOut' = segOut /\ segBuffer' = Grown]_vars

\* three long deltas without a terminator: the buffer was kept at 120
\* characters and flushed whole at 180
C22_Witness ==
    /\ segPos = 3
    /\ segPhase = "open"
    /\ segOut = << LongDelta \o LongDelta \o LongDelta >>
    /\ segBuffer = <<>>

\* the stream has ended and the loop has taken every chunk
LoopDone == segPhase = "ended" /\ segTaken = Len(segOut)

\* the chunks of the stream that are not blank, trimmed
RECURSIVE Sentences(_)
Sentences(chunks) ==
    IF chunks = <<>> THEN <<>>
    ELSE IF Trim(Head(chunks)) = <<>> THEN Sentences(Tail(chunks))
    ELSE << Trim(Head(chunks)) >> \o Sentences(Tail(chunks))

\* C23 as stated: whatever non-empty text the buffer holds when the stream
\* ends becomes the last unit, with a queue task and a place at the end of
\* the response.
C23_TailAlwaysAUnit ==
    (LoopDone /\ segTail # <<>>) =>
        /\ segUnits # <<>>
        /\ Last(segUnits) = Trim(segTail)
        /\ Trim(segTail) # <<>>

\* C23: when the stream ends the transform enqueues what the buffer holds,
\* if anything, as the last chunk. If that text is not blank the loop makes
\* its trimmed form the last unit, with a queue task like every other unit
\* and joined to the response by one space; if it is blank the loop skips it
\* and no unit comes of it.
C23_TailFlushedBlankSkipped ==
    /\ [][(segPhase = "open" /\ segPhase' = "ended") =>
            /\ segTail' = segBuffer
            /\ segOut' = IF segBuffer = <<>> THEN segOut
                         ELSE Append(segOut, segBuffer)]_vars
    /\ [](LoopDone =>
            /\ segUnits = Sentences(segOut)
            /\ segFull = JoinSpaces(segUnits)
            /\ Trim(segTail) # <<>> =>
                    /\ segOut # <<>> /\ Last(segOut) = segTail
                    /\ segUnits # <<>> /\ Last(segUnits) = Trim(segTail)
            /\ (segTail # <<>> /\ Trim(segTail) = <<>>) =>
                    /\ segOut # <<>> /\ Last(segOut) = segTail
                    /\ Len(segUnits) = Len(Sentences(SubSeq(segOut, 1,
                                                    Len(segOut) - 1))))

\* "a! " was flushed at the delta and "b" at the end of the stream
C23_Witness ==
    /\ LoopDone
    /\ segTail = << "b" >>
    /\ segUnits = << << "a", "!" >>, << "b" >> >>
    /\ segFull = << "a", "!", WS, "b" >>

\* the concatenation of a sequence of texts
RECURSIVE Flatten(_)
Flatten(ts) == IF ts = <<>> THEN <<>> ELSE Head(ts) \o Flatten(Tail(ts))

\* a text without its whitespace
NoSpaces(t) == SelectSeq(t, LAMBDA ch : ch # WS)

\* C24: at every moment the chunks enqueued so far, concatenated in the
\* order of emission and followed by the buffer, are the concatenation of
\* the deltas taken so far, so after the end of the stream the chunks
\* concatenate to the whole stream; the units are the non-blank chunks,
\* trimmed, in the order of their chunks, and their concatenation is the
\* stream's but for whitespace.
C24_NothingLostOrReordered ==
    /\ Flatten(segOut) \o segBuffer = Flatten(SubSeq(segAll, 1, segPos))
    /\ segUnits = Sentences(SubSeq(segOut, 1, segTaken))
    /\ segPhase = "ended" =>
            /\ Flatten(segOut) = Flatten(segAll)
            /\ segOut = smoothStream(segAll, <<>>)
    /\ LoopDone => NoSpaces(Flatten(segUnits)) = NoSpaces(Flatten(segAll))

\* three deltas gave three units, the middle one cut out of two deltas
C24_Witness ==
    /\ LoopDone
    /\ segAll = << << "a", "!", WS, WS, "b" >>, << "?", WS >>, << "a", "." >> >>
    /\ segUnits = << << "a", "!" >>, << "b", "?" >>, << "a", "." >> >>

\* ======================================================== client properties
\* item i is audible: its play() resolved and it has neither ended nor failed
Playing(i) == elements[i].play = "resolved" /\ elements[i].ev = "none"

\* item i was started and its playback is not over
InFlight(i) ==
    /\ elements[i].ev = "none"
    /\ elements[i].play \in {"pending", "resolved"}

\* the step pushes an item onto the playback queue
Arrival ==
    Len(started') + Len(audioQueue') = Len(started) + Len(audioQueue) + 1

\* C5 as stated: at most one item is playing at any instant.
C5_AtMostOnePlaying == Cardinality({ i \in Items : Playing(i) }) <= 1

\* C6 as stated (its safety part): items start in arrival order, each once;
\* an item arriving while nothing is in flight starts at once; an item
\* arriving while another is playing goes to the tail of the queue and is not
\* started.
C6_StartOrder ==
    [](\A k \in DOMAIN started :
            /\ \A j \in DOMAIN started : j < k => started[j] < started[k]
            /\ \A j \in DOMAIN audioQueue : started[k] < audioQueue[j].id)

C6_IdleArrivalStarts ==
    [][(Arrival /\ \A i \in Items : ~InFlight(i))
            => audioQueue' = <<>> /\ Len(started') = Len(started) + 1]_vars

C6_BusyArrivalQueues ==
    [][(Arrival /\ \E i \in Items : Playing(i))
            => started' = started /\ Len(audioQueue') = Len(audioQueue) + 1]_vars

C6_PlayedOnceInArrivalOrder ==
    C6_StartOrder /\ C6_IdleArrivalStarts /\ C6_BusyArrivalQueues

\* the times the queue was advanced on account of item i's element: by
\* revokeUrl (ended or error event) and by the catch block (rejected play())
Advancements(i) ==
    (IF elements[i].ev # "none" THEN 1 ELSE 0)
        + (IF elements[i].play = "rejected" THEN 1 ELSE 0)

\* C25 as stated: an item, failing or not, advances the queue exactly once,
\* and with nothing in flight the queue is empty and the player idle, so a
\* failing item neither blocks nor overtakes a later one.
C25_OneAdvancementPerItem ==
    /\ \A i \in Items : Advancements(i) <= 1
    /\ (\A i \in Items : ~InFlight(i)) => (audioQueue = <<>> /\ ~isPlaying)

\* C26 as stated: the object URL of an item whose playback is over, by a
\* normal end, an element error or a rejected play(), has been revoked, and
\* no later item was started before that.
C26_UrlRevokedWhenOver ==
    \A i \in Items :
        (elements[i].url # "none" /\ ~InFlight(i)) => elements[i].url = "revoked"

\* C27 as stated: isSpeaking is true exactly when the playback queue is not
\* empty or an item is in flight.
C27_SpeakingIffBusy ==
    isSpeaking <=> (audioQueue # <<>> \/ \E i \in Items : InFlight(i))

\* k chunk texts joined by single spaces
JoinedChunks(k) == JoinSpaces([j \in 1..k |-> << "a", "." >>])

\* C28 as stated: every assistant entry of the transcript is the texts of
\* audio chunks that arrived, in arrival order, joined by single spaces, and
\* every user entry is the text of a transcript message.
C28_AssistantEntryIsChunkTexts ==
    \A n \in DOMAIN messages :
        IF messages[n].role = "assistant"
        THEN \E k \in 1..MaxArrivals : messages[n].content = JoinedChunks(k)
        ELSE messages[n].content \in UserTexts

\* ====================================================== controls properties
\* C29: once unlockAudio has been called the flag is set and there is one
\* audio context, the one the first call created; every later call leaves
\* the flag, the context, its identity and the number of resume requests as
\* they were, so n calls leave what one call leaves; calling it on its own
\* result changes nothing.
C29_UnlockIdempotent ==
    /\ [](unlockCalls >= 1 =>
            /\ audioUnlocked
            /\ audioContext = 1
            /\ Len(contexts) = 1
            /\ resumeRequests <= 1)
    /\ [](\A f1, f2 \in FreshStates :
            unlockAudio(unlockAudio(UnlockState, f1), f2)
                = unlockAudio(UnlockState, f1))
    /\ [][(unlockCalls' = unlockCalls + 1 /\ unlockCalls >= 1) =>
            /\ audioUnlocked' = audioUnlocked
            /\ audioContext' = audioContext
            /\ contexts' = contexts
            /\ resumeRequests' = resumeRequests]_vars

\* three calls, the context still suspended at the third: one context, one
\* resume request
C29_Witness ==
    /\ unlockCalls = 3
    /\ contexts = << "suspended" >>
    /\ resumeRequests = 1
    /\ audioUnlocked


\* ------------------------------------------------------------------- C30
\* the 16-bit and 32-bit little-endian numbers read back from the buffer
U16At(out, off) == out[off + 1] + 256 * out[off + 2]

U32At(out, off) == [hi |-> U16At(out, off + 2), lo |-> U16At(out, off)]

\* the signed 16-bit number read back from the buffer
S16At(out, off) ==
    IF U16At(out, off) >= 32768 THEN U16At(out, off) - Base16
    ELSE U16At(out, off)

BytesAt(out, off, n) == [i \in 1..n |-> out[off + i]]

\* the canonical 44-byte header for the call's N and R, then the N samples
WavLayout ==
    LET n == Len(wavSamples) IN
    /\ Len(wavOut) = 44 + 2 * n
    /\ \A i \in 1..Len(wavOut) : wavOut[i] \in 0..255
    /\ BytesAt(wavOut, 0, 4) = << 82, 73, 70, 70 >>
    /\ U32At(wavOut, 4) = Wide(36 + 2 * n)
    /\ BytesAt(wavOut, 8, 4) = << 87, 65, 86, 69 >>
    /\ BytesAt(wavOut, 12, 4) = << 102, 109, 116, 32 >>
    /\ U32At(wavOut, 16) = Wide(16)
    /\ U16At(wavOut, 20) = 1
    /\ U16At(wavOut, 22) = 1
    /\ U32At(wavOut, 24) = wavRate
    /\ U32At(wavOut, 28) = WideTimes(wavRate, 2)
    /\ U16At(wavOut, 32) = 2
    /\ U16At(wavOut, 34) = 16
    /\ BytesAt(wavOut, 36, 4) = << 100, 97, 116, 97 >>
    /\ U32At(wavOut, 40) = Wide(2 * n)
    /\ \A i \in 1..n :
          S16At(wavOut, 44 + 2 * (i - 1))
              = TruncDiv(PcmScaled(wavSamples[i]), SampleUnit)

RateFits == wavRate.hi < 32768

Abs(x) == IF x < 0 THEN -x ELSE x

\* the sample clamped to [-1, 1], in quarters
ClampedTo(q) ==
    CHOOSE c \in -SampleUnit..SampleUnit :
        \A d \in -SampleUnit..SampleUnit : Abs(q - c) <= Abs(q - d)

\* the scale that belongs to a value's sign
ScaleOf(x) == IF x < 0 THEN 32768 ELSE 32767

\* the stored sample i of the returned buffer
StoredSample(i) == S16At(wavOut, 44 + 2 * (i - 1))

\* C31: every stored sample is the clamped input scaled by 32767
\* (non-negative) or 32768 (negative) with the fraction dropped, no value
\* wraps around, and an in-range sample is reproduced by decoding to within
\* 1/32767.
C31_ClampScaleRoundTrip ==
    wavPhase = "done" /\ Len(wavOut) = 44 + 2 * Len(wavSamples) =>
        \A i \in 1..Len(wavSamples) :
            LET q == wavSamples[i]
                exact == ClampedTo(q) * ScaleOf(q)
                v == StoredSample(i)
            IN /\ v \in -32768..32767
               /\ Abs(v * SampleUnit) <= Abs(exact)
               /\ Abs(exact - v * SampleUnit) < SampleUnit
               /\ (q < 0) = (v < 0)
               /\ Abs(q) <= SampleUnit =>
                     Abs(v * SampleUnit - q * ScaleOf(q)) * 32767
                         <= SampleUnit * ScaleOf(q)

C31_Witness ==
    /\ wavPhase = "done"
    /\ Len(wavSamples) = 2
    /\ Abs(wavSamples[1]) > SampleUnit
    /\ wavSamples[2] \in 1..(SampleUnit - 1)
    /\ StoredSample(2) > 0


\* ------------------------------------------------------------------- C32
\* the payload starts with the RIFF....WAVE signature
RiffWave ==
    /\ Len(sniffPayload) >= 12
    /\ SubSeq(sniffPayload, 1, 4) = << 82, 73, 70, 70 >>
    /\ SubSeq(sniffPayload, 9, 12) = << 87, 65, 86, 69 >>

\* first byte 0xFF, top three bits of the second byte set
MpegSync ==
    /\ Len(sniffPayload) >= 2
    /\ sniffPayload[1] = 255
    /\ sniffPayload[2] >= 224

\* the text is at least as long as the inspected part and that part decodes
Inspectable ==
    Len(sniffText) >= InspectLength /\ sniffDamage # "head"

\* C32: sniffAudioMime returns only wav or mpeg; it returns mpeg exactly for
\* a decodable text of at least the inspected length whose payload starts
\* with 0xFF and a byte with its top three bits set; RIFF....WAVE payloads,
\* every other payload, short texts and undecodable texts give wav; what
\* follows the inspected part changes nothing.
C32_SniffClassification ==
    sniffPhase = "done" =>
        /\ sniffMime \in { "audio/wav", "audio/mpeg" }
        /\ (sniffMime = "audio/mpeg") = (Inspectable /\ MpegSync)
        /\ RiffWave => sniffMime = "audio/wav"

C32_Witness ==
    /\ sniffPhase = "done"
    /\ sniffMime = "audio/mpeg"
    /\ sniffDamage = "tail"
    /\ sniffPayload[2] = 251


\* ------------------------------------------------------------------- C33
\* a completion call is started for frame f in this step
CompletionStarts(f) == pc[f] # "streaming" /\ pc'[f] = "streaming"

\* a synthesis call is started for frame f in this step
SynthesisStarts(f) ==
    \E k \in DOMAIN ttsQueue'[f] :
        /\ ttsQueue'[f][k].st = "running"
        /\ k \in DOMAIN ttsQueue[f] => ttsQueue[f][k].st = "queued"

\* C33: after the close event no completion or synthesis call is started,
\* no turn is appended to the history and no message is sent on the socket.
C33_NothingAfterClose ==
    [][closed =>
          /\ msgHistory' = msgHistory
          /\ sent' = sent
          /\ \A f \in Frames : ~CompletionStarts(f) /\ ~SynthesisStarts(f)]_vars

\* the same with ws.send throwing on the closed socket: nothing is sent, and
\* still no call is started and no turn appended
C33_Throwing_NothingAfterClose ==
    [][closed /\ sendThrows =>
          /\ msgHistory' = msgHistory
          /\ \A f \in Frames : ~SynthesisStarts(f)]_vars


\* ------------------------------------------------------------------- C34
\* the turn of frame f is in progress
InProgress(f) == pc[f] \in {"transcribing", "streaming", "draining"}

\* the sentences given to a queue, joined as fullResponse joins them
RECURSIVE QueueText(_)
QueueText(q) ==
    IF q = <<>> THEN <<>>
    ELSE Accumulate(QueueText(SubSeq(q, 1, Len(q) - 1)), q[Len(q)].text)

\* C34: while a turn is in progress the next audio frame is accepted at
\* once; every accepted frame has its Processing.... status as the first
\* message of its turn; the turns push to the one history and each has its
\* own queue, holding its own sentences only.
C34_OverlappingFramesAccepted ==
    /\ (accepted /\ nframes < Cardinality(Frames)) => ENABLED ReceiveAudio
    /\ \A f \in Frames :
          /\ pc[f] # "none" =>
                /\ sent[f] # <<>>
                /\ sent[f][1] = Status("Processing....", f)
          /\ QueueText(ttsQueue[f]) = fullResponse[f]
          /\ pc[f] \in {"streaming", "draining"} /\ textFrames = <<>> =>
                \E i \in DOMAIN msgHistory :
                    msgHistory[i] = Turn("user", transcription[f], f)

\* both turns are in their completion streams, each with a task in its queue
C34_Witness ==
    /\ pc[1] = "streaming"
    /\ pc[2] = "streaming"
    /\ ttsQueue[1] # <<>>
    /\ ttsQueue[2] # <<>>
    /\ ttsQueue[1][1].text # ttsQueue[2][1].text
    /\ Len(msgHistory) = 2


\* ------------------------------------------------------------------- C35
\* the invocation is over
BatchOver == qPhase \in {"acked", "threw"}

\* the index took one vector per message, each for that message's chunk and
\* text
AllInserted ==
    /\ Len(inserted) = Len(batch)
    /\ \A i \in 1..Len(batch) :
          /\ inserted[i].docId = batch[i].docId
          /\ inserted[i].chunkIndex = batch[i].chunkIndex
          /\ inserted[i].values = Embedding(batch[i].text)

C36_GranularRetry ==
    BatchOver /\ culprit # 0 =>
        \A i \in 1..Len(batch) :
            IF i = culprit
            THEN retries[i] = 1 /\ acks[i] = 0
            ELSE retries[i] = 0 /\ acks[i] = 1


\* ------------------------------------------------------------------- C37
\* the user entries of a transcript
UserEntries(t) == { n \in DOMAIN t : t[n].role = "user" }

\* C37 as stated: the step that handles a text message (the only one that
\* adds a user entry) adds that one entry to the transcript and nothing
\* else: no assistant entry, no item on the playback queue, no playback
\* attempt.
C37_TextAddsOnlyUserEntry ==
    [][Cardinality(UserEntries(messages')) > Cardinality(UserEntries(messages))
          => /\ \E t \in UserTexts :
                    messages' = Append(messages,
                                       [role |-> "user", content |-> t])
             /\ audioQueue' = audioQueue
             /\ started' = started
             /\ elements' = elements]_vars


\* ------------------------------------------------------------------- C38
\* a clear command has been handled
Cleared == \E n \in DOMAIN textFrames : textFrames[n] = "clear"

\* C38 as stated: once a clear command was handled, a turn that was in
\* progress appends nothing to the cleared history, so every assistant turn
\* in the history has the user turn of its own audio frame before it.
C38_NoOrphanTurnAfterClear ==
    Cleared =>
        \A i \in DOMAIN msgHistory :
            msgHistory[i].role = "assistant" =>
                \E j \in 1..(i - 1) :
                    /\ msgHistory[j].role = "user"
                    /\ msgHistory[j].frame = msgHistory[i].frame


\* ------------------------------------------------------------------- C39
\* C39 as stated: in the messages of a turn no audio message comes after
\* the error message of its failed completion stream.
C39_NoAudioAfterError ==
    \A f \in Frames :
        \A i, j \in DOMAIN sent[f] :
            (i < j /\ sent[f][i].type = "error") => sent[f][j].type # "audio"


\* ------------------------------------------------------------------- C40
\* C40 as stated: the step in which an open socket closes leaves
\* isConnected false, status "Disconnected" and the socket reference
\* cleared, whether or not a server message had been received.
C40_CloseResetsConnection ==
    [][wsState = "open" /\ wsState' = "closed"
          => /\ ~isConnected'
             /\ status' = "Disconnected"
             /\ ~wsRef']_vars

====
